---------------------------- MODULE Spec2Model ----------------------------
(***************************************************************************)
(* A model of the chart compiler and of the play engine of Angolmois      *)
(* (src/angolmois.rs): the measure-scaling transforms of Bms, the block   *)
(* preprocessor of parse_bms_from_reader, sanitize_bms, apply_random_modf *)
(* and Player::tick.                                                       *)
(*                                                                         *)
(* Numbers.  An f64 of the source is modelled as an exact rational, a     *)
(* pair <<n, d>> with d > 0 in lowest terms; the rounding of IEEE         *)
(* arithmetic is therefore not modelled, and every equality stated on     *)
(* f64 values below is an equality of the real numbers they stand for.    *)
(* A cast `x as uint` / `x as int` truncates toward zero.                  *)
(*                                                                         *)
(* Each part has its own specification over the same variables: SpecTime   *)
(* (scaling transforms), SpecSan (sanitizer and Random modifier),          *)
(* SpecParse (block preprocessor), SpecPlay (Player::tick), SpecKey (the   *)
(* alphanumeric key codec), SpecReplay (the replay of the buffered data    *)
(* lines), SpecCompact (compact_bms), SpecGrade (update_grade), SpecPtr     *)
(* (Pointer) and SpecPlayOn (the play loop under an advancing clock); a    *)
(* specification leaves the variables of the other parts at Idle.          *)
(***************************************************************************)
EXTENDS Integers, Sequences, FiniteSets, TLC

VARIABLES
    tl,       \* the Bms scaling transforms: the call under check and its results
    pp,       \* parse_bms_from_reader: the block preprocessor's state
    sz,       \* sanitize_bms / apply_random_modf: the chart being post-processed
    player,   \* Player: the state of the play engine
    kc,       \* the alphanumeric key codec: the text or key under conversion
    rp,       \* parse_bms_from_reader: the replay of the buffered data lines
    ptr,      \* Pointer: a cursor over the objects, the loop it drives and its visits
    loop      \* the play loop `while player.tick()`: its clock reading, whether it goes on

vars == <<tl, pp, sz, player, kc, rp, ptr, loop>>

Idle == [pc |-> "idle"]

----------------------------------------------------------------------------
(* Exact rationals standing for f64.                                       *)

Abs(n) == IF n < 0 THEN -n ELSE n

RECURSIVE GCD(_, _)
GCD(a, b) == IF b = 0 THEN a ELSE GCD(b, a % b)

\* The rational n/d (d # 0) in lowest terms with a positive denominator.
Q(n, d) ==
    LET g == GCD(Abs(n), Abs(d))
        s == IF d < 0 THEN -1 ELSE 1
    IN  <<(s * n) \div g, (s * d) \div g>>

I(n) == <<n, 1>>

RAdd(a, b) == Q(a[1] * b[2] + b[1] * a[2], a[2] * b[2])
RSub(a, b) == Q(a[1] * b[2] - b[1] * a[2], a[2] * b[2])
RMul(a, b) == Q(a[1] * b[1], a[2] * b[2])
RDiv(a, b) == Q(a[1] * b[2], a[2] * b[1])
RLt(a, b) == a[1] * b[2] < b[1] * a[2]
RLe(a, b) == a[1] * b[2] <= b[1] * a[2]
RAbs(a) == <<Abs(a[1]), a[2]>>
RNeg(a) == <<-a[1], a[2]>>

\* f64::floor followed by `as int`.
Floor(a) == a[1] \div a[2]

\* `x as uint` for x >= 0, `x as int` in general: truncation toward zero.
Trunc(a) == IF a[1] >= 0 THEN a[1] \div a[2] ELSE -((-a[1]) \div a[2])

----------------------------------------------------------------------------
(* Bms::shorten, Bms::adjust_object_time, Bms::adjust_object_position.     *)
(* `shortens` is the sequence bms.shortens; measure m is its element m+1.  *)

shorten(shortens, measure) ==
    IF measure < 0 \/ measure >= Len(shortens)
    THEN I(1)
    ELSE shortens[measure + 1]

\* The `while offset >= curshorten` loop of adjust_object_time.
RECURSIVE adjust_loop(_, _, _)
adjust_loop(shortens, offset, i) ==
    LET curshorten == shorten(shortens, i)
    IN  IF RLe(curshorten, offset)
        THEN adjust_loop(shortens, RSub(offset, curshorten), i + 1)
        ELSE RAdd(I(i), RDiv(offset, curshorten))

\* A scaling in which the first measure's factor is forgotten.
adjust_object_time_unscaled(shortens, base, offset) ==
    LET basemeasure == Floor(base)
        basefrac == RSub(base, I(basemeasure))
        tonextmeasure == RSub(I(1), basefrac)
    IN  IF RLt(offset, tonextmeasure)
        THEN RAdd(base, offset)
        ELSE adjust_loop(shortens, RSub(offset, tonextmeasure), basemeasure + 1)

adjust_object_time(shortens, base, offset) ==
    LET basemeasure == Floor(base)
        baseshorten == shorten(shortens, basemeasure)
        basefrac == RSub(base, I(basemeasure))
        tonextmeasure == RMul(RSub(I(1), basefrac), baseshorten)
    IN  IF RLt(offset, tonextmeasure)
        THEN RAdd(base, RDiv(offset, baseshorten))
        ELSE adjust_loop(shortens, RSub(offset, tonextmeasure), basemeasure + 1)

\* The `for i in range(basemeasure, timemeasure)` sum of adjust_object_position.
RECURSIVE sum_shortens(_, _, _)
sum_shortens(shortens, from, to) ==
    IF from >= to THEN I(0)
    ELSE RAdd(shorten(shortens, from), sum_shortens(shortens, from + 1, to))

adjust_object_position(shortens, base, time) ==
    LET basemeasure == Floor(base)
        timemeasure == Floor(time)
        basefrac == RSub(base, I(basemeasure))
        timefrac == RSub(time, I(timemeasure))
        pos == RSub(RMul(timefrac, shorten(shortens, timemeasure)),
                    RMul(basefrac, shorten(shortens, basemeasure)))
    IN  RAdd(pos, sum_shortens(shortens, basemeasure, timemeasure))

----------------------------------------------------------------------------
(* The scaling transforms called on bounded inputs.                        *)

\* The longest scaling table tried.
MaxShortens == 3

\* Scaling factors a chart can hold: channel #02 keeps only factors > 0.001.
Factors == {Q(1, 2), I(1), Q(3, 2), I(2)}

ShortenTables == UNION {[1..n -> Factors] : n \in 0..MaxShortens}

Bases == {I(-1), Q(-1, 2), I(0), Q(1, 4), Q(1, 2), I(1), Q(7, 4), Q(5, 2)}

Offsets == {I(0), Q(1, 4), Q(1, 2), Q(3, 4), I(1), Q(3, 2), I(2), Q(7, 2)}

TimeInit ==
    /\ tl \in [pc : {"call"}, shortens : ShortenTables, base : Bases,
               offset : Offsets, time : {I(0)}, position : {I(0)},
               time0 : {I(0)}]
    /\ pp = Idle /\ sz = Idle /\ player = Idle /\ kc = Idle /\ rp = Idle /\ ptr = Idle
    /\ loop = Idle

\* adjust_object_time(base, offset), adjust_object_time(base, 0) and
\* adjust_object_position(base, the first result).
AdjustCall ==
    /\ tl.pc = "call"
    /\ LET t == adjust_object_time(tl.shortens, tl.base, tl.offset)
       IN  tl' = [tl EXCEPT !.pc = "done",
                            !.time = t,
                            !.time0 = adjust_object_time(tl.shortens, tl.base, I(0)),
                            !.position = adjust_object_position(tl.shortens, tl.base, t)]
    /\ UNCHANGED <<pp, sz, player, kc, rp, ptr, loop>>

TimeNext == AdjustCall

SpecTime == TimeInit /\ [][TimeNext]_vars

\* C10: for any scaling table, base and d >= 0, adjust_object_time(base, 0)
\* is base and adjust_object_position(base, adjust_object_time(base, d)) is d.
C10_RoundTrip ==
    tl.pc = "done" => /\ tl.time0 = tl.base
                      /\ tl.position = tl.offset

\* A call whose span crosses two measure boundaries with different factors.
C10_Witness ==
    /\ tl.pc = "done"
    /\ Floor(tl.time) >= Floor(tl.base) + 2
    /\ shorten(tl.shortens, Floor(tl.base)) # shorten(tl.shortens, Floor(tl.base) + 1)
    /\ shorten(tl.shortens, Floor(tl.base)) # I(1)
    /\ tl.base # I(Floor(tl.base))

----------------------------------------------------------------------------
(* Objects.  Option<T> is a sequence of length 0 (None) or 1 (Some).       *)

None == <<>>
Some(x) == <<x>>

\* The number of lanes the model keeps: lanes 0..NLANES-1. The source has 72
\* (NLANES); its loops over the lanes treat each lane alone.
NLANES == 3

mkobj(time, kind, lane, sref, layer, val, unit) ==
    [time |-> time, kind |-> kind, lane |-> lane, sref |-> sref,
     layer |-> layer, val |-> val, unit |-> unit]

Visible(t, lane, sref) == mkobj(t, "Visible", Some(lane), sref, "", I(0), "")
Invisible(t, lane, sref) == mkobj(t, "Invisible", Some(lane), sref, "", I(0), "")
LNStart(t, lane, sref) == mkobj(t, "LNStart", Some(lane), sref, "", I(0), "")
LNDone(t, lane, sref) == mkobj(t, "LNDone", Some(lane), sref, "", I(0), "")
\* Bomb(lane, sref, GaugeDamage(ratio)) and Bomb(lane, sref, InstantDeath)
Bomb(t, lane, sref, ratio) == mkobj(t, "Bomb", Some(lane), sref, "", ratio, "GaugeDamage")
DeathBomb(t, lane, sref) == mkobj(t, "Bomb", Some(lane), sref, "", I(0), "InstantDeath")
BGM(t, sref) == mkobj(t, "BGM", None, Some(sref), "", I(0), "")
SetBGA(t, layer, iref) == mkobj(t, "SetBGA", None, iref, layer, I(0), "")
SetBPM(t, bpm) == mkobj(t, "SetBPM", None, None, "", bpm, "")
\* Stop(Seconds(v)) and Stop(Measures(v))
Stop(t, unit, v) == mkobj(t, "Stop", None, None, "", v, unit)

is_visible(obj) == obj.kind = "Visible"
is_lnstart(obj) == obj.kind = "LNStart"
is_lndone(obj) == obj.kind = "LNDone"
is_gradable(obj) == obj.kind \in {"Visible", "LNStart", "LNDone"}
is_soundable(obj) == obj.kind \in {"Visible", "Invisible", "LNStart", "LNDone"}
is_object(obj) == obj.kind \in {"Visible", "Invisible", "LNStart", "LNDone", "Bomb"}
object_lane(obj) == IF is_object(obj) THEN obj.lane ELSE None
measure(obj) == Floor(obj.time)

----------------------------------------------------------------------------
(* sanitize_bms.                                                           *)

\* The type numbers of the per-lane pass; a lower number is more important.
LNDONE == 0
LNSTART == 1
VISIBLE == 2
INVISIBLE == 3
BOMB == 4

\* A demotion that keeps no sound: every object becomes the placeholder.
remove_or_replace_note_silent(obj) ==
    mkobj(obj.time, "Deleted", None, None, "", I(0), "")

\* A demotion that leaves a long-note start playable: it becomes a Visible of
\* the same lane and sound.
remove_or_replace_note_playable(obj) ==
    IF obj.kind = "LNStart" THEN Visible(obj.time, obj.lane[1], obj.sref)
    ELSE IF obj.kind \in {"Visible", "Invisible", "LNDone"} /\ obj.sref # None
    THEN BGM(obj.time, obj.sref[1])
    ELSE mkobj(obj.time, "Deleted", None, None, "", I(0), "")

remove_or_replace_note(obj) ==
    IF obj.kind \in {"Visible", "Invisible", "LNStart", "LNDone"} /\ obj.sref # None
    THEN BGM(obj.time, obj.sref[1])
    ELSE mkobj(obj.time, "Deleted", None, None, "", I(0), "")

\* bms.objs.sort_by on the time: a stable sort.
RECURSIVE insert_by_time(_, _)
insert_by_time(sorted, obj) ==
    IF sorted = <<>> THEN <<obj>>
    ELSE IF RLt(obj.time, sorted[Len(sorted)].time)
         THEN Append(insert_by_time(SubSeq(sorted, 1, Len(sorted) - 1), obj),
                     sorted[Len(sorted)])
         ELSE Append(sorted, obj)

RECURSIVE sort_by_time(_)
sort_by_time(objs) ==
    IF objs = <<>> THEN <<>>
    ELSE insert_by_time(sort_by_time(SubSeq(objs, 1, Len(objs) - 1)), objs[Len(objs)])

\* A pass of sanitize: one lane, or the effects (SetBGA per layer, SetBPM, Stop).
LanePass(lane) == [effects |-> FALSE, lane |-> lane]
EffectPass == [effects |-> TRUE, lane |-> 0]

\* The to_type closures: the type of the object in the pass, if it has one.
to_type(pass, obj) ==
    IF pass.effects
    THEN CASE obj.kind = "SetBGA" /\ obj.layer = "Layer1" -> Some(0)
           [] obj.kind = "SetBGA" /\ obj.layer = "Layer2" -> Some(1)
           [] obj.kind = "SetBGA" /\ obj.layer = "Layer3" -> Some(2)
           [] obj.kind = "SetBGA" /\ obj.layer = "PoorBGA" -> Some(3)
           [] obj.kind = "SetBPM" -> Some(4)
           [] obj.kind = "Stop" -> Some(5)
           [] OTHER -> None
    ELSE IF obj.lane # Some(pass.lane) THEN None
    ELSE CASE obj.kind = "Visible" -> Some(VISIBLE)
           [] obj.kind = "Invisible" -> Some(INVISIBLE)
           [] obj.kind = "LNStart" -> Some(LNSTART)
           [] obj.kind = "LNDone" -> Some(LNDONE)
           [] obj.kind = "Bomb" -> Some(BOMB)
           [] OTHER -> None

\* types & -types: the lowest type of a set of types, as a set.
lowest_type(types) ==
    IF types = {} THEN {} ELSE {CHOOSE t \in types : \A u \in types : t <= u}

\* A merge that keeps the lowest type alone, also for an Invisible with a Bomb.
merge_lane_types_lowest_only(types0, inside) ==
    LET LNMASK == {LNSTART, LNDONE}
        t1 == IF LNMASK \subseteq types0 THEN types0 \ LNMASK ELSE types0
        t2 == IF inside THEN t1 \ {LNSTART, VISIBLE, BOMB} ELSE t1 \ {LNDONE}
        t3 == IF t2 \cap LNMASK # {} THEN t2 \ {INVISIBLE} ELSE t2
        t4 == lowest_type(t3)
    IN  [types |-> t4,
         inside |-> IF LNSTART \in t4 THEN TRUE
                    ELSE IF LNDONE \in t4 THEN FALSE ELSE inside]

\* The merge_types closure of the per-lane pass, which reads and sets `inside`.
merge_lane_types(types0, inside) ==
    LET LNMASK == {LNSTART, LNDONE}
        \* remove overlapping LN endpoints altogether
        t1 == IF LNMASK \subseteq types0 THEN types0 \ LNMASK ELSE types0
        \* remove prohibited types according to inside
        t2 == IF inside THEN t1 \ {LNSTART, VISIBLE, BOMB} ELSE t1 \ {LNDONE}
        \* invisible note cannot overlap with long note endpoints
        t3 == IF t2 \cap LNMASK # {} THEN t2 \ {INVISIBLE} ELSE t2
        \* keep the most important (lowest) type, except for BOMB/INVISIBLE
        lowest == lowest_type(t3)
        t4 == IF lowest = {INVISIBLE} THEN lowest \cup (t3 \cap {BOMB}) ELSE lowest
    IN  [types |-> t4,
         inside |-> IF LNSTART \in t4 THEN TRUE
                    ELSE IF LNDONE \in t4 THEN FALSE ELSE inside]

merge_types(pass, types, inside) ==
    IF pass.effects THEN [types |-> types, inside |-> inside]
    ELSE merge_lane_types(types, inside)

\* The end of the run of objects starting at i: `objs[j].time <= cur`.
RECURSIVE run_end(_, _, _)
run_end(objs, cur, j) ==
    IF j <= Len(objs) /\ RLe(objs[j].time, cur) THEN run_end(objs, cur, j + 1) ELSE j

\* A first loop that records the types seen and demotes nothing.
mark_duplicates_kept(objs, pass, k, j, types) ==
    [objs |-> objs,
     types |-> types \cup {to_type(pass, objs[m])[1] :
                             m \in {n \in k..(j - 1) : to_type(pass, objs[n]) # None}}]

\* The first loop over a run: the types seen, later duplicates demoted.
RECURSIVE mark_duplicates(_, _, _, _, _)
mark_duplicates(objs, pass, k, j, types) ==
    IF k >= j THEN [objs |-> objs, types |-> types]
    ELSE LET t == to_type(pass, objs[k])
         IN  IF t = None THEN mark_duplicates(objs, pass, k + 1, j, types)
             ELSE IF t[1] \in types
                  THEN mark_duplicates([objs EXCEPT ![k] = remove_or_replace_note(@)],
                                       pass, k + 1, j, types)
                  ELSE mark_duplicates(objs, pass, k + 1, j, types \cup {t[1]})

\* The second loop over a run: the objects of a type not kept are demoted.
RECURSIVE drop_unmerged(_, _, _, _, _)
drop_unmerged(objs, pass, k, j, types) ==
    IF k >= j THEN objs
    ELSE LET t == to_type(pass, objs[k])
         IN  IF t # None /\ t[1] \notin types
             THEN drop_unmerged([objs EXCEPT ![k] = remove_or_replace_note(@)],
                                pass, k + 1, j, types)
             ELSE drop_unmerged(objs, pass, k + 1, j, types)

\* fn sanitize, from index i on (1-based), with the closure's `inside`.
RECURSIVE sanitize(_, _, _, _)
sanitize(objs, pass, i, inside) ==
    IF i > Len(objs) THEN [objs |-> objs, inside |-> inside]
    ELSE LET j == run_end(objs, objs[i].time, i)
             marked == mark_duplicates(objs, pass, i, j, {})
             merged == merge_types(pass, marked.types, inside)
         IN  sanitize(drop_unmerged(marked.objs, pass, i, j, merged.types),
                      pass, j, merged.inside)

\* rposition: the last object of the pass, 0 if there is none.
RECURSIVE rposition_typed(_, _, _)
rposition_typed(objs, pass, k) ==
    IF k = 0 THEN 0
    ELSE IF to_type(pass, objs[k]) # None THEN k
    ELSE rposition_typed(objs, pass, k - 1)

\* The body of `for lane in range(0, NLANES)`.
sanitize_lane(objs, lane) ==
    LET res == sanitize(objs, LanePass(lane), 1, FALSE)
        pos == rposition_typed(res.objs, LanePass(lane), Len(res.objs))
    IN  IF res.inside /\ pos > 0 /\ is_lnstart(res.objs[pos])
        THEN [res.objs EXCEPT ![pos] = remove_or_replace_note(@)]
        ELSE res.objs

RECURSIVE sanitize_lanes(_, _)
sanitize_lanes(objs, lane) ==
    IF lane >= NLANES THEN objs
    ELSE sanitize_lanes(sanitize_lane(objs, lane), lane + 1)

sanitize_bms(objs) ==
    sanitize(sanitize_lanes(sort_by_time(objs), 0), EffectPass, 1, FALSE).objs

----------------------------------------------------------------------------
(* apply_random_modf.  The shuffles of the RNG are a nondeterministic      *)
(* choice: the operator gives every outcome the call can have.             *)

update_object_lane(obj, map) ==
    IF is_object(obj) THEN [obj EXCEPT !.lane = Some(map[obj.lane[1]])] ELSE obj

\* movable.iter().position(|&i| i == lane): 0 if absent.
RECURSIVE position(_, _, _)
position(movable, lane, k) ==
    IF k > Len(movable) THEN 0
    ELSE IF movable[k] = lane THEN k
    ELSE position(movable, lane, k + 1)

\* Vec::swap_remove: the last element takes the place of element i.
swap_remove(v, i) ==
    IF i = Len(v) THEN SubSeq(v, 1, Len(v) - 1)
    ELSE SubSeq([v EXCEPT ![i] = v[Len(v)]], 1, Len(v) - 1)

\* Every order r.shuffle can leave a vector in.
shuffles(v) ==
    {[k \in 1..Len(v) |-> v[p[k]]] :
        p \in {f \in [1..Len(v) -> 1..Len(v)] : \A a, b \in 1..Len(v) : f[a] = f[b] => a = b}}

\* for (from, to) in movable.zip(shuffled) { map[from] = to }
remap(map, movable, shuffled) ==
    [lane \in DOMAIN map |->
        IF \E k \in 1..Len(movable) : movable[k] = lane
        THEN shuffled[CHOOSE k \in 1..Len(movable) :
                        /\ movable[k] = lane
                        /\ \A m \in (k + 1)..Len(movable) : movable[m] # lane]
        ELSE map[lane]]

\* The condition under which the object's lane is pushed back to `movable`.
modf_push_back(obj) == is_lnstart(obj)

\* The loop of apply_random_modf from object k on. lasttime is None for
\* f64::NEG_INFINITY.
RECURSIVE random_modf_from(_, _, _, _, _)
random_modf_from(objs, k, movable, map, lasttime) ==
    IF k > Len(objs) THEN {[objs |-> objs, panicked |-> FALSE]}
    ELSE
    LET obj == objs[k]
        pos == IF is_lnstart(obj) THEN position(movable, obj.lane[1], 1) ELSE 0
    IN  IF is_lnstart(obj) /\ pos = 0
        THEN {[objs |-> objs, panicked |-> TRUE]}   \* "non-sanitized BMS detected"
        ELSE
        LET movable1 == IF is_lnstart(obj) THEN swap_remove(movable, pos) ELSE movable
            reshuffle == lasttime = None \/ RLt(lasttime[1], obj.time)
            lasttime1 == IF reshuffle THEN Some(RAdd(obj.time, Q(1, 10000))) ELSE lasttime
            maps == IF reshuffle
                    THEN {remap(map, movable1, sh) : sh \in shuffles(movable1)}
                    ELSE {map}
            movable2 == IF modf_push_back(obj) THEN Append(movable1, obj.lane[1])
                        ELSE movable1
        IN  UNION {random_modf_from([objs EXCEPT ![k] = update_object_lane(obj, m)],
                                    k + 1, movable2, m, lasttime1) : m \in maps}

apply_random_modf(objs, lanes) ==
    random_modf_from(objs, 1, lanes, [lane \in 0..(NLANES - 1) |-> lane], None)

----------------------------------------------------------------------------
(* Post-processing of a parsed chart: sanitize_bms, then the Random        *)
(* modifier on the lanes of the key layout.                                *)

\* The longest object list tried.
MaxObjs == 3

SanTimes == {I(1), I(2)}
SanLanes == {0, 1}

\* The lanes handed to apply_random_modf.
ModfLanes == <<0, 1>>

RawObjs ==
    UNION {{Visible(t, l, Some(1)), Invisible(t, l, Some(1)), LNStart(t, l, Some(1)),
            LNDone(t, l, Some(1)), Bomb(t, l, Some(0), Q(1, 2))} :
           t \in SanTimes, l \in SanLanes}

RawCharts == UNION {[1..n -> RawObjs] : n \in 0..MaxObjs}

SanInit ==
    /\ sz \in [pc : {"parsed"}, raw : RawCharts, objs : {<<>>}, before : {<<>>},
               panicked : {FALSE}]
    /\ tl = Idle /\ pp = Idle /\ player = Idle /\ kc = Idle /\ rp = Idle /\ ptr = Idle
    /\ loop = Idle

Sanitize ==
    /\ sz.pc = "parsed"
    /\ sz' = [sz EXCEPT !.pc = "sanitized", !.objs = sanitize_bms(sz.raw)]
    /\ UNCHANGED <<tl, pp, player, kc, rp, ptr, loop>>

RandomModf ==
    /\ sz.pc = "sanitized"
    /\ \E r \in apply_random_modf(sz.objs, ModfLanes) :
          sz' = [sz EXCEPT !.pc = "modified", !.before = sz.objs,
                           !.objs = r.objs, !.panicked = r.panicked]
    /\ UNCHANGED <<tl, pp, player, kc, rp, ptr, loop>>

SanNext == Sanitize \/ RandomModf

SpecSan == SanInit /\ [][SanNext]_vars

\* The objects of a lane that are (retained) LN endpoints, in list order.
ln_endpoints(objs, lane) ==
    SelectSeq(objs, LAMBDA o : o.lane = Some(lane) /\ o.kind \in {"LNStart", "LNDone"})

sorted_by_time(objs) ==
    \A a, b \in 1..Len(objs) : a < b => RLe(objs[a].time, objs[b].time)

\* C2: after sanitize_bms the LN endpoints of every lane alternate, starting
\* with an LNStart and ending with an LNDone, each LNDone at a later-or-equal
\* time than its LNStart.
C2_LNPaired ==
    sz.pc = "sanitized" =>
        \A lane \in SanLanes :
            LET e == ln_endpoints(sz.objs, lane)
            IN  /\ Len(e) % 2 = 0
                /\ \A k \in 1..Len(e) :
                      /\ e[k].kind = (IF k % 2 = 1 THEN "LNStart" ELSE "LNDone")
                      /\ k % 2 = 0 => RLe(e[k - 1].time, e[k].time)

\* C3: after sanitize_bms objs is in non-decreasing time order and no lane
\* holds two objects of the same type at the same time.
C3_SortedNoDup ==
    sz.pc = "sanitized" =>
        /\ sorted_by_time(sz.objs)
        /\ \A a, b \in 1..Len(sz.objs) :
              (/\ a # b
               /\ is_object(sz.objs[a])
               /\ sz.objs[a].kind = sz.objs[b].kind
               /\ sz.objs[a].lane = sz.objs[b].lane)
              => sz.objs[a].time # sz.objs[b].time

\* A sanitized chart whose input was out of order and held the same type
\* twice at one time of one lane.
C3_Witness ==
    /\ sz.pc = "sanitized"
    /\ ~sorted_by_time(sz.raw)
    /\ \E a, b \in 1..Len(sz.raw) : a # b /\ sz.raw[a] = sz.raw[b]
    /\ \E a \in 1..Len(sz.objs) : is_object(sz.objs[a])

\* The index of the LNDone closing the LNStart at index i of a sanitized
\* chart: the next LNDone of the lane, 0 if there is none.
RECURSIVE matching_lndone(_, _, _)
matching_lndone(objs, i, k) ==
    IF k > Len(objs) THEN 0
    ELSE IF is_lndone(objs[k]) /\ objs[k].lane = objs[i].lane THEN k
    ELSE matching_lndone(objs, i, k + 1)

\* C6: after the Random modifier on a sanitized chart, the LNStart and the
\* matching LNDone of every long note are in the same lane.
C6_LNSameLane ==
    (sz.pc = "modified" /\ ~sz.panicked) =>
        \A i \in 1..Len(sz.before) :
            (is_lnstart(sz.before[i]) /\ matching_lndone(sz.before, i, i + 1) # 0)
            => sz.objs[i].lane = sz.objs[matching_lndone(sz.before, i, i + 1)].lane

\* The types of the objects of a lane at a time.
types_at(objs, lane, t) ==
    {to_type(LanePass(lane), objs[i])[1] :
        i \in {k \in 1..Len(objs) :
                  objs[k].time = t /\ to_type(LanePass(lane), objs[k]) # None}}

\* The types that are to survive a run, as the rule is stated: the types
\* illegal for the LN state and an LNStart met with an LNDone are taken away,
\* and of the rest the lowest number stays, a Bomb staying with an Invisible.
surviving_types(types, inside) ==
    LET illegal == IF inside THEN {LNSTART, VISIBLE, BOMB} ELSE {LNDONE}
        paired == IF {LNSTART, LNDONE} \subseteq types THEN {LNSTART, LNDONE} ELSE {}
        legal == types \ (illegal \cup paired)
    IN  IF legal = {} THEN {}
        ELSE LET low == CHOOSE a \in legal : \A b \in legal : a <= b
             IN  IF low = INVISIBLE THEN legal \cap {INVISIBLE, BOMB} ELSE {low}

\* Whether the lane is inside a long note after (before) the run at time t,
\* by the surviving LN endpoints of the runs up to t.
RECURSIVE open_after(_, _, _)
RECURSIVE open_before(_, _, _)
open_after(objs, lane, t) ==
    \E b \in {open_before(objs, lane, t)} :
        \E sv \in {surviving_types(types_at(objs, lane, t), b)} :
            IF LNSTART \in sv THEN TRUE ELSE IF LNDONE \in sv THEN FALSE ELSE b

open_before(objs, lane, t) ==
    LET before == {i \in 1..Len(objs) : RLt(objs[i].time, t)}
    IN  IF before = {} THEN FALSE
        ELSE open_after(objs, lane,
                        objs[CHOOSE i \in before :
                                \A k \in before : RLe(objs[k].time, objs[i].time)].time)

\* The time of the LNStart that the end of the lane leaves open, if any: the
\* one the fix-up after the lane's pass may demote.
left_open(objs, lane, t) ==
    /\ LNSTART \in surviving_types(types_at(objs, lane, t), open_before(objs, lane, t))
    /\ \A i \in 1..Len(objs) : RLe(t, objs[i].time) => open_after(objs, lane, objs[i].time)

\* C21: in every run of same-time objects of a lane, what sanitize_bms keeps
\* is the lowest of the types legal for the LN state (LNDone < LNStart <
\* Visible < Invisible < Bomb), a Bomb staying with an Invisible; an LNStart
\* and an LNDone of one instant are both removed, and no Invisible is kept
\* with an LN endpoint.  (The LNStart the lane leaves open may be demoted by
\* the fix-up that follows the pass.)
C21_LowestTypeSurvives ==
    sz.pc = "sanitized" =>
        \A lane \in SanLanes : \A t \in SanTimes :
            \E kept \in {types_at(sz.objs, lane, t)} :
            \E sv \in {surviving_types(types_at(sz.raw, lane, t),
                                       open_before(sz.raw, lane, t))} :
                /\ \/ kept = sv
                   \/ left_open(sz.raw, lane, t) /\ kept = sv \ {LNSTART}
                /\ {LNSTART, LNDONE} \subseteq types_at(sz.raw, lane, t)
                      => kept \cap {LNSTART, LNDONE} = {}
                /\ INVISIBLE \in kept => kept \cap {LNSTART, LNDONE} = {}
                /\ \A a, b \in kept : a # b => {a, b} = {INVISIBLE, BOMB}

\* A sanitized lane with a long note open at its second time, where an LNDone
\* stands with another type and the LNDone alone is kept.
C21_Witness ==
    /\ sz.pc = "sanitized"
    /\ \E lane \in SanLanes :
          /\ types_at(sz.objs, lane, I(1)) = {LNSTART}
          /\ open_before(sz.raw, lane, I(2))
          /\ {LNDONE, INVISIBLE} \subseteq types_at(sz.raw, lane, I(2))
          /\ types_at(sz.objs, lane, I(2)) = {LNDONE}

\* No two lane objects of one time and of different lanes are in one lane
\* after the modifier.
modf_no_collision ==
    \A a, b \in 1..Len(sz.before) :
        (/\ is_object(sz.before[a]) /\ is_object(sz.before[b])
         /\ sz.before[a].time = sz.before[b].time
         /\ sz.before[a].lane # sz.before[b].lane)
        => sz.objs[a].lane # sz.objs[b].lane

\* No object of another lane is put into the lane of a long note between the
\* LNStart and the matching LNDone.
modf_no_intrusion ==
    \A i \in 1..Len(sz.before) :
        (is_lnstart(sz.before[i]) /\ matching_lndone(sz.before, i, i + 1) # 0)
        => \A k \in (i + 1)..(matching_lndone(sz.before, i, i + 1) - 1) :
              (is_object(sz.before[k]) /\ sz.before[k].lane # sz.before[i].lane)
              => sz.objs[k].lane # sz.objs[i].lane

\* C24: after apply_random_modf on a sanitized chart, the lane map in force at
\* every object is one-to-one on the lanes given: objects of one time and of
\* different lanes stay in different lanes, and no object is moved into the
\* lane of a long note in progress.
C24_MapIsBijection ==
    (sz.pc = "modified" /\ ~sz.panicked) => (modf_no_collision /\ modf_no_intrusion)

----------------------------------------------------------------------------
(* parse_bms_from_reader: the loop over the lines, one line per step.  The *)
(* RNG is a nondeterministic choice; pp.rng counts the values drawn.      *)

\* BlockState::inactive
state_inactive(state) == state \in {"Ignore", "NoFurther"}

\* A Block::inactive that leaves the skip flag out.
block_inactive_by_state(block) == state_inactive(block.state)

\* Block::inactive
block_inactive(block) == block.skip \/ state_inactive(block.state)

Block(val, state, skip) == [val |-> val, state |-> state, skip |-> skip]

last(blk) == blk[Len(blk)]

set_last_state(blk, state) == [blk EXCEPT ![Len(blk)].state = state]

\* let val = if val <= 0 {None} else {Some(val)};
positive(val) == IF val <= 0 THEN None ELSE Some(val)

\* A #RANDOM that draws whatever the enclosing block's activity.
draws_always(prefix, val, inactive) == prefix = "RANDOM" /\ val # None

\* Whether #RANDOM / #SETRANDOM val calls r.gen_range.
draws(prefix, val, inactive) == prefix = "RANDOM" /\ val # None /\ ~inactive

\* The value of the pushed block, `drawn` being what gen_range(1, val + 1) gave.
generated(prefix, val, inactive, drawn) ==
    IF val = None THEN None
    ELSE IF prefix = "SETRANDOM" THEN val
    ELSE IF ~inactive THEN Some(drawn)
    ELSE None

\* An #IF / #ELSEIF that takes the clause whatever the block's value.
if_state_any(prefix, val, blk) ==
    IF (prefix = "IF" /\ ~state_inactive(last(blk).state)) \/ last(blk).state = "Ignore"
    THEN (IF val = None THEN "Ignore" ELSE "Process")
    ELSE "NoFurther"

\* The state #IF / #ELSEIF val gives the last block.
if_state(prefix, val, blk) ==
    IF (prefix = "IF" /\ ~state_inactive(last(blk).state)) \/ last(blk).state = "Ignore"
    THEN (IF val = None \/ val # last(blk).val THEN "Ignore" ELSE "Process")
    ELSE "NoFurther"

\* An #ELSE that takes its clause after a clause already taken.
else_state_again(blk) ==
    IF last(blk).state \in {"Ignore", "Process"} THEN "Process" ELSE "NoFurther"

\* The state #ELSE gives the last block.
else_state(blk) ==
    IF last(blk).state = "Ignore" THEN "Process" ELSE "NoFurther"

\* An #ENDRANDOM that pops whatever the length of the list.
end_random_unguarded(blk) == SubSeq(blk, 1, Len(blk) - 1)

\* #ENDRANDOM: if blk.len() > 1 { blk.pop(); }
end_random(blk) == IF Len(blk) > 1 THEN SubSeq(blk, 1, Len(blk) - 1) ELSE blk

\* blk.iter().rposition(|&i| i.state != Outside): 0 if there is none (1-based).
RECURSIVE rposition_not_outside(_, _)
rposition_not_outside(blk, k) ==
    IF k = 0 THEN 0
    ELSE IF blk[k].state # "Outside" THEN k
    ELSE rposition_not_outside(blk, k - 1)

\* An #END(IF) that truncates also when the block found is the first one.
end_blocks_to_first(blk) ==
    LET idx == rposition_not_outside(blk, Len(blk))
        cut == IF idx > 0 THEN SubSeq(blk, 1, idx) ELSE blk
    IN  set_last_state(cut, "Outside")

\* #END(IF)
end_blocks(blk) ==
    LET idx == rposition_not_outside(blk, Len(blk))
        cut == IF idx > 1 THEN SubSeq(blk, 1, idx) ELSE blk
    IN  set_last_state(cut, "Outside")

\* The most blocks nested, the most values drawn and the most data lines kept.
MaxDepth == 2
MaxDraws == 1
MaxLines == 1

\* The integers read after #RANDOM, #SETRANDOM, #IF and #ELSEIF.
Args == {0, 1, 2}

ParseInit ==
    /\ pp = [pc |-> "reading",
             blk |-> <<Block(None, "Outside", FALSE)>>,
             rng |-> 0,
             bmsline |-> <<>>,
             line |-> [prefix |-> "", val |-> 0, lexed |-> TRUE, inactive |-> FALSE,
                       state |-> "Outside", depth |-> 1],
             opened |-> <<"">>,
             clause |-> None]
    /\ tl = Idle /\ sz = Idle /\ player = Idle /\ kc = Idle /\ rp = Idle /\ ptr = Idle
    /\ loop = Idle

\* The line read: its prefix, the integer of a #RANDOM line (0 on the other
\* lines), whether `lex!` matched it, and, as they were when it was read,
\* blk.last().unwrap().inactive(), the state of the last block (kept for the
\* lines of an #IF chain and #END) and blk.len() (kept for #ENDRANDOM, #END).
ReadLine(prefix, val, lexed) ==
    [prefix |-> prefix, val |-> IF prefix = "RANDOM" THEN val ELSE 0, lexed |-> lexed,
     inactive |-> block_inactive(last(pp.blk)),
     state |-> IF prefix \in {"IF", "ELSEIF", "ELSE", "END"}
               THEN last(pp.blk).state ELSE "Outside",
     depth |-> IF prefix \in {"ENDRANDOM", "END"} THEN Len(pp.blk) ELSE 1]

\* Two histories of the lines read.  pp.opened[2] is the prefix of the line
\* that pushed blk[2], the outermost block, while there is one (pp.opened[1]
\* stands for the first element of blk, which no line pushed).  pp.clause is
\* Some(k) while the last block's state was set by an `#IF k` read in state
\* Outside, with no other directive since.

\* The history of the openers cut to a list of `len` blocks.
opened_upto(opened, len) == SubSeq(opened, 1, IF len < 2 THEN len ELSE 2)

\* #RANDOM val, #SETRANDOM val
RandomLine(prefix, val) ==
    /\ pp.pc = "reading"
    /\ Len(pp.blk) <= MaxDepth
    /\ LET n == positive(val)
           inactive == block_inactive(last(pp.blk))
       IN  /\ draws(prefix, n, inactive) => pp.rng < MaxDraws
           /\ \E drawn \in (IF draws(prefix, n, inactive) THEN 1..val ELSE {0}) :
                pp' = [pp EXCEPT
                         !.blk = Append(@, Block(generated(prefix, n, inactive, drawn),
                                                 "Outside", inactive)),
                         !.rng = IF draws(prefix, n, inactive) THEN @ + 1 ELSE @,
                         !.line = ReadLine(prefix, val, TRUE),
                         !.opened = IF Len(pp.blk) = 1 THEN Append(@, prefix) ELSE @,
                         !.clause = None]
    /\ UNCHANGED <<tl, sz, player, kc, rp, ptr, loop>>

Random == \E val \in Args : RandomLine("RANDOM", val)

SetRandom == \E val \in Args : RandomLine("SETRANDOM", val)

\* #ENDRANDOM
EndRandom ==
    /\ pp.pc = "reading"
    /\ pp' = [pp EXCEPT !.blk = end_random(@),
                        !.line = ReadLine("ENDRANDOM", 0, TRUE),
                        !.opened = opened_upto(@, Len(end_random(pp.blk))),
                        !.clause = None]
    /\ UNCHANGED <<tl, sz, player, kc, rp, ptr, loop>>

\* #IF val, #ELSEIF val
IfLine(prefix, val) ==
    /\ pp.pc = "reading"
    /\ pp' = [pp EXCEPT
                !.blk = set_last_state(@, if_state(prefix, positive(val), pp.blk)),
                !.line = ReadLine(prefix, val, TRUE),
                !.clause = IF prefix = "IF" /\ last(pp.blk).state = "Outside"
                           THEN Some(val) ELSE None]
    /\ UNCHANGED <<tl, sz, player, kc, rp, ptr, loop>>

If == \E val \in Args : IfLine("IF", val)

ElseIf == \E val \in Args : IfLine("ELSEIF", val)

\* #ELSE
Else ==
    /\ pp.pc = "reading"
    /\ pp' = [pp EXCEPT
                !.blk = set_last_state(@, else_state(pp.blk)),
                !.line = ReadLine("ELSE", 0, TRUE),
                !.clause = None]
    /\ UNCHANGED <<tl, sz, player, kc, rp, ptr, loop>>

\* #END, #ENDIF
End ==
    /\ pp.pc = "reading"
    /\ pp' = [pp EXCEPT !.blk = end_blocks(@),
                        !.line = ReadLine("END", 0, TRUE),
                        !.opened = opened_upto(@, Len(end_blocks(pp.blk))),
                        !.clause = None]
    /\ UNCHANGED <<tl, sz, player, kc, rp, ptr, loop>>

\* #nnnmm:data, kept in bmsline when the last block is active.
DataLine ==
    /\ pp.pc = "reading"
    /\ Len(pp.bmsline) < MaxLines
    /\ pp' = [pp EXCEPT !.bmsline = IF block_inactive(last(pp.blk)) THEN @
                                     ELSE Append(@, 1),
                        !.line = ReadLine("", 1, TRUE)]
    /\ UNCHANGED <<tl, sz, player, kc, rp, ptr, loop>>

\* A line whose integer is taken as 0 when `lex!` fails.
malformed_as_zero(prefix) ==
    [pp EXCEPT !.blk = IF prefix = "RANDOM"
                       THEN Append(@, Block(None, "Outside", block_inactive(last(pp.blk))))
                       ELSE IF prefix = "IF"
                       THEN set_last_state(@, if_state(prefix, None, pp.blk))
                       ELSE @,
               !.bmsline = IF prefix = "" /\ ~block_inactive(last(pp.blk))
                           THEN Append(@, 1) ELSE @,
               !.line = ReadLine(prefix, 0, FALSE)]

\* A line that `lex!` does not match: the body of `if lex!(...) { ... }` is
\* not run, whatever the block state.
malformed(prefix) == [pp EXCEPT !.line = ReadLine(prefix, 0, FALSE)]

\* A #RANDOM or an #IF with no integer after it, or a data line with no
\* channel or no data: `lex!` fails.
Malformed ==
    /\ pp.pc = "reading"
    /\ \E prefix \in {"RANDOM", "IF", ""} : pp' = malformed(prefix)
    /\ UNCHANGED <<tl, sz, player, kc, rp, ptr, loop>>

ParseNext ==
    \/ Random \/ SetRandom \/ EndRandom \/ If \/ ElseIf \/ Else \/ End
    \/ DataLine \/ Malformed

SpecParse == ParseInit /\ [][ParseNext]_vars

\* C7: a #RANDOM n (n > 0) read while the last block is inactive draws nothing
\* and pushes a block with no value; read while it is active it draws exactly
\* one value, in 1..n, which the pushed block holds; #SETRANDOM and the other
\* lines never draw.
C7_DrawOnlyWhenActive ==
    [][LET l == pp'.line
       IN  IF l.prefix = "RANDOM" /\ l.lexed /\ l.val > 0
           THEN IF l.inactive
                THEN pp'.rng = pp.rng /\ last(pp'.blk).val = None
                ELSE /\ pp'.rng = pp.rng + 1
                     /\ last(pp'.blk).val \in {Some(v) : v \in 1..l.val}
           ELSE pp'.rng = pp.rng]_vars

\* A #RANDOM 2 has been read inside an inactive block after an earlier draw.
C7_Witness ==
    /\ pp.line.prefix = "RANDOM" /\ pp.line.val = 2 /\ pp.line.inactive
    /\ pp.rng = 1
    /\ Len(pp.blk) = 3

\* C8: a data line read after `#IF k` in a top-level #RANDOM block is kept
\* if and only if the value generated for the block is k.
C8_IfSelectsByValue ==
    (pp.line.prefix = "" /\ Len(pp.blk) = 2 /\ pp.opened[2] = "RANDOM" /\ pp.clause # None)
    => (~pp.line.inactive <=> pp.blk[2].val = pp.clause)

\* RANDOM 2 drew 1 and the data line after IF 1 was kept.
C8_Witness ==
    /\ pp.line.prefix = "" /\ Len(pp.blk) = 2 /\ pp.opened[2] = "RANDOM"
    /\ pp.clause = Some(1)
    /\ pp.blk[2].val = Some(1) /\ pp.rng = 1
    /\ Len(pp.bmsline) = 1

\* C14 as claimed: an #IF, #ELSEIF or #ELSE read while the last block's state
\* is Process (a clause taken) or NoFurther sets NoFurther.
C14_TakenForecloses ==
    (pp.line.prefix \in {"IF", "ELSEIF", "ELSE"} /\ pp.line.lexed
        /\ pp.line.state \in {"Process", "NoFurther"})
    => last(pp.blk).state = "NoFurther"

\* C14: an #ELSEIF or #ELSE read while the last block's state is Process sets
\* NoFurther, and so does an #IF, #ELSEIF or #ELSE read in state NoFurther; an
\* #IF read in state Process is evaluated afresh and gives Process or Ignore.
C14_ElseForecloses ==
    (pp.line.prefix \in {"IF", "ELSEIF", "ELSE"} /\ pp.line.lexed)
    => /\ (pp.line.state = "NoFurther" \/
           (pp.line.state = "Process" /\ pp.line.prefix # "IF"))
          => last(pp.blk).state = "NoFurther"
       /\ (pp.line.state = "Process" /\ pp.line.prefix = "IF")
          => last(pp.blk).state \in {"Process", "Ignore"}

\* An #ELSE has been read in a RANDOM block whose clause was taken.
C14_Witness ==
    /\ pp.line.prefix = "ELSE" /\ pp.line.state = "Process"
    /\ Len(pp.blk) = 2 /\ pp.opened[2] = "RANDOM" /\ pp.blk[2].val = Some(2)
    /\ pp.blk[2].state = "NoFurther"

\* The blocks whose state is not Outside, among those at `from` and above.
not_outside(blk, from) == {i \in from..Len(blk) : blk[i].state # "Outside"}

\* The list cut after its block `top`, that block's state reset to Outside.
cut_to(blk, top) == set_last_state(SubSeq(blk, 1, top), "Outside")

highest(S) == CHOOSE i \in S : \A j \in S : j <= i

\* C15 as claimed: #END cuts the list after the nearest block whose state is
\* not Outside, the first block included, and resets that block's state; with
\* no such block the list is unchanged.
C15_EndCutsToNearest ==
    [][pp'.line.prefix = "END" =>
          pp'.blk = IF not_outside(pp.blk, 1) = {} THEN pp.blk
                    ELSE cut_to(pp.blk, highest(not_outside(pp.blk, 1)))]_vars

\* C15: #END cuts the list after the nearest block above the first one whose
\* state is not Outside and resets that block's state; with no such block it
\* removes nothing and resets the state of the last block.  The first block
\* is never removed.
C15_EndCutsAboveFirst ==
    [][pp'.line.prefix = "END" =>
          /\ pp'.blk = IF not_outside(pp.blk, 2) = {} THEN cut_to(pp.blk, Len(pp.blk))
                       ELSE cut_to(pp.blk, highest(not_outside(pp.blk, 2)))
          /\ Len(pp'.blk) >= 1
          /\ pp'.blk[1].val = pp.blk[1].val /\ pp'.blk[1].skip = pp.blk[1].skip]_vars

\* An #END has been read with two blocks above the first, both Outside, and
\* the first block in state Ignore: nothing was removed.
C15_Witness ==
    /\ pp.line.prefix = "END" /\ pp.line.depth = 3 /\ pp.line.state = "Outside"
    /\ Len(pp.blk) = 3 /\ pp.blk[1].state = "Ignore"
    /\ pp.blk[2].state = "Outside"

\* C16: the list of blocks is never empty and its first element is the block
\* the loop started with (no value, not skipped, pushed by no line); an
\* #ENDRANDOM read with one block in the list leaves the list as it is.
C16_RootStays ==
    /\ Len(pp.blk) >= 1
    /\ pp.blk[1].val = None /\ ~pp.blk[1].skip
    /\ pp.opened[1] = ""
    /\ (pp.line.prefix = "ENDRANDOM" /\ pp.line.depth = 1) => Len(pp.blk) = 1

\* An #ENDRANDOM has been read with only the first block in the list.
C16_Witness ==
    pp.line.prefix = "ENDRANDOM" /\ pp.line.depth = 1 /\ Len(pp.blk) = 1

\* C17: whenever a block below the last one is skipped or in state Ignore or
\* NoFurther, the last block is skipped; and a data line is kept only when
\* every block of the list is in state Outside or Process and not skipped.
C17_InactiveInherited ==
    /\ \A i \in 1..(Len(pp.blk) - 1) :
          (pp.blk[i].skip \/ pp.blk[i].state \in {"Ignore", "NoFurther"})
          => pp.blk[Len(pp.blk)].skip
    /\ (pp.line.prefix = "" /\ ~pp.line.inactive)
       => \A i \in 1..Len(pp.blk) :
             ~pp.blk[i].skip /\ pp.blk[i].state \in {"Outside", "Process"}

\* A data line has been read (and dropped) at the third level of nesting, in
\* a block pushed under the first block's unmatched #IF.
C17_Witness ==
    /\ pp.line.prefix = "" /\ pp.line.inactive
    /\ Len(pp.blk) = 3 /\ pp.blk[1].state = "Ignore"
    /\ pp.blk[2].state = "Outside" /\ pp.blk[3].state = "Process"
    /\ pp.blk[3].val = Some(1) /\ pp.blk[3].skip

----------------------------------------------------------------------------
(* Pointer: a position in bms.objs (0-based, as in the source; the object  *)
(* at pos is objs[pos + 1]) and the cached next position.                  *)

Min(a, b) == IF a < b THEN a ELSE b
Max(a, b) == IF a > b THEN a ELSE b

Pointer(pos) == [pos |-> pos, next |-> None]

\* A reset that takes the cached step.
reset_forward(p) == [pos |-> IF p.next # None THEN p.next[1] ELSE p.pos, next |-> None]

\* Pointer::reset
reset(p) == [p EXCEPT !.next = None]

\* A seek that also passes the objects at the limit.
RECURSIVE seek_until_past(_, _, _)
seek_until_past(objs, p, limit) ==
    IF p.pos < Len(objs) /\ RLe(objs[p.pos + 1].time, limit)
    THEN seek_until_past(objs, [p EXCEPT !.pos = @ + 1], limit)
    ELSE [p EXCEPT !.next = None]

\* Pointer::seek_until
RECURSIVE seek_until(_, _, _)
seek_until(objs, p, limit) ==
    IF p.pos < Len(objs) /\ RLt(objs[p.pos + 1].time, limit)
    THEN seek_until(objs, [p EXCEPT !.pos = @ + 1], limit)
    ELSE [p EXCEPT !.next = None]

\* Pointer::next_until: the pointer afterwards and the value returned.
next_until(objs, p, limit) ==
    LET pos == IF p.next # None THEN p.next[1] ELSE p.pos
    IN  IF pos < Len(objs) /\ RLt(objs[pos + 1].time, limit)
        THEN [ptr |-> [pos |-> pos, next |-> Some(pos + 1)], more |-> TRUE]
        ELSE [ptr |-> [pos |-> pos, next |-> None], more |-> FALSE]

\* Pointer::next_to
next_to(p, limit) ==
    LET pos == IF p.next # None THEN p.next[1] ELSE p.pos
    IN  IF pos >= limit.pos
        THEN [ptr |-> [pos |-> pos, next |-> p.next], more |-> FALSE]
        ELSE [ptr |-> [pos |-> pos, next |-> Some(pos + 1)], more |-> TRUE]

\* Pointer::seek_to_end
seek_to_end(objs, p) == [pos |-> Len(objs), next |-> None]

\* Pointer::next_to_end
next_to_end(objs, p) ==
    LET pos == IF p.next # None THEN p.next[1] ELSE p.pos
    IN  IF pos >= Len(objs)
        THEN [ptr |-> [pos |-> pos, next |-> p.next], more |-> FALSE]
        ELSE [ptr |-> [pos |-> pos, next |-> Some(pos + 1)], more |-> TRUE]

\* The conditions the engine searches with: an object of `lane` whose kind
\* is one of `kinds`.
of_type(obj, lane, kinds) == object_lane(obj) = Some(lane) /\ obj.kind \in kinds

\* Pointer::find_next_of_type: Some(position) or None.
RECURSIVE find_next_of_type(_, _, _, _)
find_next_of_type(objs, i, lane, kinds) ==
    IF i >= Len(objs) THEN None
    ELSE IF of_type(objs[i + 1], lane, kinds) THEN Some(i)
    ELSE find_next_of_type(objs, i + 1, lane, kinds)

\* Pointer::find_previous_of_type
RECURSIVE find_previous_of_type(_, _, _, _)
find_previous_of_type(objs, i, lane, kinds) ==
    IF i <= 0 THEN None
    ELSE IF of_type(objs[i], lane, kinds) THEN Some(i - 1)
    ELSE find_previous_of_type(objs, i - 1, lane, kinds)

\* A search that prefers the match ahead.
find_closest_of_type_ahead(objs, pos, base, lane, kinds) ==
    LET previous == find_previous_of_type(objs, pos, lane, kinds)
        next == find_next_of_type(objs, pos, lane, kinds)
    IN  IF next # None THEN next ELSE previous

\* Pointer::find_closest_of_type
find_closest_of_type(objs, pos, base, lane, kinds) ==
    LET previous == find_previous_of_type(objs, pos, lane, kinds)
        next == find_next_of_type(objs, pos, lane, kinds)
    IN  IF previous = None THEN next
        ELSE IF next = None THEN previous
        ELSE IF RLt(RAbs(RSub(objs[previous[1] + 1].time, base)),
                    RAbs(RSub(objs[next[1] + 1].time, base)))
             THEN previous
             ELSE next

----------------------------------------------------------------------------
(* Player.  The record `player` holds the fields of the struct that the    *)
(* clock and the grading read or write, in play mode (no autoplay, no      *)
(* exclusive mode) with keyboard input.  Left out: the play speed and      *)
(* `top` (drawing only), the sound channels and the joystick state.        *)
(* Two fields are histories that the source does not keep: grades[i] is    *)
(* the number of grades recorded for object i, and `log` lists what the    *)
(* last tick did, in the order it did it.                                  *)

\* BPM::measure_to_msec, BPM::msec_to_measure
measure_to_msec(bpm, m) == RDiv(RMul(m, I(240000)), bpm)
msec_to_measure(bpm, msec) == RDiv(RMul(msec, bpm), I(240000))

\* Duration::to_msec
to_msec(unit, v, bpm) ==
    IF unit = "Seconds" THEN RMul(v, I(1000)) ELSE measure_to_msec(bpm, v)

COOL_CUTOFF == Q(144, 10)
GREAT_CUTOFF == I(48)
GOOD_CUTOFF == I(84)
BAD_CUTOFF == I(144)
MAXGAUGE == 512
SCOREPERNOTE == I(300)

Grades == {"MISS", "BAD", "GOOD", "GREAT", "COOL"}

NoDamage == [unit |-> "None", ratio |-> I(0)]
GaugeDamage(ratio) == [unit |-> "GaugeDamage", ratio |-> ratio]
InstantDeath == [unit |-> "InstantDeath", ratio |-> I(0)]
MISS_DAMAGE == GaugeDamage(Q(59, 1000))
BAD_DAMAGE == GaugeDamage(Q(30, 1000))

\* The damage a Bomb object carries.
bomb_damage(obj) ==
    IF obj.unit = "InstantDeath" THEN InstantDeath ELSE GaugeDamage(obj.val)

\* analyze_bms: nnotes and originoffset
nnotes(objs) == Cardinality({i \in 1..Len(objs) : is_lnstart(objs[i]) \/ is_visible(objs[i])})
originoffset(objs) ==
    IF \E i \in 1..Len(objs) :
           (is_lnstart(objs[i]) \/ is_visible(objs[i])) /\ RLt(objs[i].time, I(1))
    THEN I(-1) ELSE I(0)

\* Player::new, with get_ticks() = now
new_player(bms, now) ==
    [pc |-> "playing", bms |-> bms,
     nnotes |-> nnotes(bms.objs), originoffset |-> originoffset(bms.objs),
     nograding |-> [i \in 1..Len(bms.objs) |-> FALSE],
     bga |-> [layer \in {"Layer1", "Layer2", "Layer3", "PoorBGA"} |->
                 IF layer = "PoorBGA" THEN Some(0) ELSE None],
     bpm |-> bms.initbpm, now |-> now, origintime |-> now, starttime |-> now,
     stoptime |-> None, startoffset |-> originoffset(bms.objs),
     startshorten |-> shorten(bms.shortens, Trunc(originoffset(bms.objs))),
     bottom |-> originoffset(bms.objs), line |-> originoffset(bms.objs),
     pfront |-> Pointer(0), pcur |-> Pointer(0), pcheck |-> Pointer(0),
     pthru |-> [lane \in 1..NLANES |-> None],
     gradefactor |-> RSub(Q(3, 2), RMul(I(Min(bms.rank, 5)), Q(1, 4))),
     lastgrade |-> None, gradecounts |-> [g \in Grades |-> 0],
     lastcombo |-> 0, bestcombo |-> 0, score |-> 0,
     gauge |-> (MAXGAUGE * 500) \div 1000, survival |-> (MAXGAUGE * 293) \div 1000,
     keymultiplicity |-> [lane \in 1..NLANES |-> 0],
     grades |-> [i \in 1..Len(bms.objs) |-> 0], log |-> <<>>]

\* Player::key_pressed
key_pressed(P, lane) == P.keymultiplicity[lane + 1] > 0

\* A grading in which a GOOD breaks the combo.
update_grade_good_breaks(P, pos, grade, scoredelta, damage) ==
    LET up == grade \in {"GREAT", "COOL"}
        weight == IF grade = "GREAT" THEN 2 ELSE 3
        cmbbonus == Min(P.lastcombo, 100) \div 50
        lastcombo == IF grade \in {"MISS", "BAD", "GOOD"} THEN 0
                     ELSE IF up THEN P.lastcombo + 1 ELSE P.lastcombo
        gauge == IF up THEN Min(P.gauge + weight + cmbbonus, MAXGAUGE) ELSE P.gauge
    IN  [P EXCEPT
           !.gradecounts[grade] = @ + 1,
           !.lastgrade = Some(<<grade, P.now>>),
           !.score = @ + Trunc(RMul(RMul(scoredelta, SCOREPERNOTE),
                                    RAdd(I(1), Q(P.lastcombo, P.nnotes)))),
           !.lastcombo = lastcombo,
           !.bestcombo = Max(@, lastcombo),
           !.gauge = IF damage.unit = "GaugeDamage"
                     THEN gauge - Trunc(RMul(I(MAXGAUGE), damage.ratio))
                     ELSE IF damage.unit = "InstantDeath" THEN Min(gauge, 0)
                     ELSE gauge,
           !.grades[pos + 1] = @ + 1]

\* A grading in which the gauge has no ceiling.
update_grade_uncapped(P, pos, grade, scoredelta, damage) ==
    LET up == grade \in {"GREAT", "COOL"}
        weight == IF grade = "GREAT" THEN 2 ELSE 3
        cmbbonus == Min(P.lastcombo, 100) \div 50
        lastcombo == IF grade \in {"MISS", "BAD"} THEN 0
                     ELSE IF up THEN P.lastcombo + 1 ELSE P.lastcombo
        gauge == IF up THEN P.gauge + weight + cmbbonus ELSE P.gauge
    IN  [P EXCEPT
           !.gradecounts[grade] = @ + 1,
           !.lastgrade = Some(<<grade, P.now>>),
           !.score = @ + Trunc(RMul(RMul(scoredelta, SCOREPERNOTE),
                                    RAdd(I(1), Q(P.lastcombo, P.nnotes)))),
           !.lastcombo = lastcombo,
           !.bestcombo = Max(@, lastcombo),
           !.gauge = IF damage.unit = "GaugeDamage"
                     THEN gauge - Trunc(RMul(I(MAXGAUGE), damage.ratio))
                     ELSE IF damage.unit = "InstantDeath" THEN Min(gauge, 0)
                     ELSE gauge,
           !.grades[pos + 1] = @ + 1]

\* Player::update_grade for the object at `pos`.
update_grade(P, pos, grade, scoredelta, damage) ==
    LET up == grade \in {"GREAT", "COOL"}
        weight == IF grade = "GREAT" THEN 2 ELSE 3
        cmbbonus == Min(P.lastcombo, 100) \div 50
        lastcombo == IF grade \in {"MISS", "BAD"} THEN 0
                     ELSE IF up THEN P.lastcombo + 1 ELSE P.lastcombo
        gauge == IF up THEN Min(P.gauge + weight + cmbbonus, MAXGAUGE) ELSE P.gauge
    IN  [P EXCEPT
           !.gradecounts[grade] = @ + 1,
           !.lastgrade = Some(<<grade, P.now>>),
           !.score = @ + Trunc(RMul(RMul(scoredelta, SCOREPERNOTE),
                                    RAdd(I(1), Q(P.lastcombo, P.nnotes)))),
           !.lastcombo = lastcombo,
           !.bestcombo = Max(@, lastcombo),
           !.gauge = IF damage.unit = "GaugeDamage"
                     THEN gauge - Trunc(RMul(I(MAXGAUGE), damage.ratio))
                     ELSE IF damage.unit = "InstantDeath" THEN Min(gauge, 0)
                     ELSE gauge,
           !.grades[pos + 1] = @ + 1]

\* A grading that never answers that the play is over.
keepgoing_always(damage) == TRUE

\* The value update_grade returns.
keepgoing(damage) == damage.unit # "InstantDeath"

\* Cutoffs in which COOL reaches as far as GREAT.
grade_of_distance_wide(dist) ==
    IF RLt(dist, GREAT_CUTOFF) THEN "COOL"
    ELSE IF RLt(dist, GOOD_CUTOFF) THEN "GOOD"
    ELSE IF RLt(dist, BAD_CUTOFF) THEN "BAD"
    ELSE "MISS"

\* The grade update_grade_from_distance gives a distance dist >= 0.
grade_of_distance(dist) ==
    IF RLt(dist, COOL_CUTOFF) THEN "COOL"
    ELSE IF RLt(dist, GREAT_CUTOFF) THEN "GREAT"
    ELSE IF RLt(dist, GOOD_CUTOFF) THEN "GOOD"
    ELSE IF RLt(dist, BAD_CUTOFF) THEN "BAD"
    ELSE "MISS"

\* Player::update_grade_from_distance
update_grade_from_distance(P, pos, dist0) ==
    LET dist == RAbs(dist0)
        grade == grade_of_distance(dist)
        damage == IF grade = "BAD" THEN BAD_DAMAGE
                  ELSE IF grade = "MISS" THEN MISS_DAMAGE ELSE NoDamage
        scoredelta0 == RSub(I(1), RDiv(dist, BAD_CUTOFF))
        scoredelta == IF RLt(scoredelta0, I(0)) THEN I(0) ELSE scoredelta0
    IN  update_grade(P, pos, grade, scoredelta, damage)

\* Player::update_grade_from_damage
update_grade_from_damage(P, pos, damage) == update_grade(P, pos, "MISS", I(0), damage)

\* Player::update_grade_to_miss
update_grade_to_miss(P, pos) == update_grade(P, pos, "MISS", I(0), MISS_DAMAGE)

logged(P, entry) == [P EXCEPT !.log = Append(@, entry)]

\* Player::break_continuity; a failed assertion ends the program.  The log
\* entry keeps the origin before the call and the new starttime.
rebase_entry(P, at, starttime) ==
    [op |-> "rebase", at |-> at, bpm |-> P.bpm, starttime |-> P.starttime,
     startoffset |-> P.startoffset, startshorten |-> P.startshorten, to |-> starttime]

\* A rebase that forgets the scaling factor of the origin's measure.
break_continuity_unscaled(P, at) ==
    LET starttime == P.starttime + Trunc(measure_to_msec(P.bpm, RSub(at, P.startoffset)))
    IN  IF RLt(at, P.startoffset) THEN [P EXCEPT !.pc = "panicked"]
        ELSE [P EXCEPT !.starttime = starttime,
                       !.startoffset = at,
                       !.log = Append(@, rebase_entry(P, at, starttime))]

break_continuity(P, at) ==
    LET starttime == P.starttime +
                     Trunc(RMul(measure_to_msec(P.bpm, RSub(at, P.startoffset)),
                                P.startshorten))
    IN  IF RLt(at, P.startoffset) THEN [P EXCEPT !.pc = "panicked"]
        ELSE [P EXCEPT !.starttime = starttime,
                       !.startoffset = at,
                       !.log = Append(@, rebase_entry(P, at, starttime))]

\* A clock that keeps running while a stop is pending.
tick_clock_unstopped(P, now) ==
    IF now < P.starttime
    THEN [P EXCEPT !.now = now, !.pc = "wrapped", !.log = <<>>]
    ELSE [P EXCEPT !.now = now,
                   !.starttime = IF P.stoptime # None /\ now >= P.stoptime[1]
                                 THEN P.stoptime[1] ELSE @,
                   !.stoptime = IF P.stoptime # None /\ now >= P.stoptime[1]
                                THEN None ELSE @,
                   !.bottom = RAdd(P.startoffset,
                                   RDiv(msec_to_measure(P.bpm, I(now - P.starttime)),
                                        P.startshorten)),
                   !.log = <<>>]

\* tick: the clock reading and the ongoing scroll stopper.  With the origin
\* ahead of the clock the unsigned `now - starttime` wraps around to a
\* position far past the chart; that run is closed as "wrapped".
tick_clock(P, now) ==
    IF P.stoptime # None
    THEN [P EXCEPT !.now = now,
                   !.starttime = IF now >= P.stoptime[1] THEN P.stoptime[1] ELSE @,
                   !.stoptime = IF now >= P.stoptime[1] THEN None ELSE @,
                   !.bottom = P.startoffset,
                   !.log = <<>>]
    ELSE IF now < P.starttime
    THEN [P EXCEPT !.now = now, !.pc = "wrapped", !.log = <<>>]
    ELSE [P EXCEPT !.now = now,
                   !.bottom = RAdd(P.startoffset,
                                   RDiv(msec_to_measure(P.bpm, I(now - P.starttime)),
                                        P.startshorten)),
                   !.log = <<>>]

\* tick: the measure scale factor change, then line and pfront.
tick_scaling(P) ==
    LET bottommeasure == Floor(P.bottom)
        curshorten == shorten(P.bms.shortens, bottommeasure)
        B == break_continuity(P, I(bottommeasure))
        P1 == IF bottommeasure >= -1 /\ P.startshorten # curshorten
              THEN (IF B.pc = "playing"
                    THEN logged([B EXCEPT !.startshorten = curshorten], [op |-> "scaling"])
                    ELSE B)
              ELSE P
    IN  IF P.pc # "playing" THEN P
        ELSE IF P1.pc # "playing" THEN P1
        ELSE [P1 EXCEPT !.line = P1.bottom,
                        !.pfront = seek_until(P1.bms.objs, @, P1.bottom)]

\* One turn of the `while self.pcur.next_until(self.line)` loop.
apply_effect(P, pos) ==
    LET obj == P.bms.objs[pos + 1]
        B == break_continuity(P, obj.time)
        newstoptime == Trunc(to_msec(obj.unit, obj.val, P.bpm)) + P.now
    IN  CASE obj.kind = "BGM" -> logged(P, [op |-> "effect", pos |-> pos])
          [] obj.kind = "SetBGA" ->
                logged([P EXCEPT !.bga[obj.layer] = obj.sref], [op |-> "effect", pos |-> pos])
          [] obj.kind = "SetBPM" ->
                IF B.pc = "playing"
                THEN logged([B EXCEPT !.bpm = obj.val], [op |-> "effect", pos |-> pos])
                ELSE B
          [] obj.kind = "Stop" ->
                logged([P EXCEPT !.stoptime = IF @ = None THEN Some(newstoptime)
                                              ELSE Some(Max(@[1], newstoptime)),
                                 !.startoffset = obj.time],
                       [op |-> "effect", pos |-> pos])
          [] OTHER -> P

RECURSIVE effects_loop(_)
effects_loop(P) ==
    LET n == next_until(P.bms.objs, P.pcur, P.line)
        P1 == [P EXCEPT !.pcur = n.ptr]
    IN  IF P.pc # "playing" THEN P
        ELSE IF ~n.more THEN P1
        ELSE effects_loop(apply_effect(P1, n.ptr.pos))

\* Effects after which pcur is put where the grading line is, also backwards.
tick_effects_following(P) ==
    LET P1 == effects_loop([P EXCEPT !.pcur = reset(@)])
    IN  IF P1.pc # "playing" THEN P1
        ELSE [P1 EXCEPT !.pcur = seek_until(P1.bms.objs, Pointer(0), P1.line)]

\* tick: apply object-like effects while advancing to new `pcur`.
tick_effects(P) == effects_loop([P EXCEPT !.pcur = reset(@)])

\* The log entry of the sweep passing an object: the lane's pthru and the
\* grades of the object it met, and whether it recorded a MISS.
sweep_entry(P, pos, missed) ==
    [op |-> "sweep", pos |-> pos,
     thru |-> IF object_lane(P.bms.objs[pos + 1]) = None THEN None
              ELSE P.pthru[object_lane(P.bms.objs[pos + 1])[1] + 1],
     graded |-> P.grades[pos + 1], missed |-> missed]

\* A sweep that does not look at nograding.
sweep_object_regrade(P, pos) ==
    LET obj == P.bms.objs[pos + 1]
        lane == object_lane(obj)
        missable == \/ obj.kind \in {"Visible", "LNStart"}
                    \/ obj.kind = "LNDone" /\ P.pthru[lane[1] + 1] # None
        P1 == logged(P, sweep_entry(P, pos, lane # None /\ missable))
    IN  IF lane # None /\ missable
        THEN [update_grade_to_miss(P1, pos) EXCEPT !.pthru[lane[1] + 1] = None]
        ELSE P1

\* The body of the miss loop for an object that has left the grading area.
sweep_object(P, pos) ==
    LET obj == P.bms.objs[pos + 1]
        lane == object_lane(obj)
        missable == \/ obj.kind \in {"Visible", "LNStart"}
                    \/ obj.kind = "LNDone" /\ P.pthru[lane[1] + 1] # None
        P1 == logged(P, sweep_entry(P, pos, ~P.nograding[pos + 1] /\ lane # None /\ missable))
    IN  IF ~P.nograding[pos + 1] /\ lane # None /\ missable
        THEN [update_grade_to_miss(P1, pos) EXCEPT !.pthru[lane[1] + 1] = None]
        ELSE P1

RECURSIVE sweep_loop(_)
sweep_loop(P) ==
    LET n == next_to(P.pcheck, P.pcur)
        P1 == [P EXCEPT !.pcheck = n.ptr]
        obj == P.bms.objs[n.ptr.pos + 1]
        dist == RMul(RMul(measure_to_msec(P.bpm, RSub(P.line, obj.time)),
                          shorten(P.bms.shortens, measure(obj))),
                     P.gradefactor)
    IN  IF ~n.more THEN P1
        ELSE IF RLt(dist, BAD_CUTOFF) THEN P1
        ELSE sweep_loop(sweep_object(P1, n.ptr.pos))

\* tick: grade objects that have escaped the grading area.
tick_sweep(P) ==
    IF P.pc # "playing" THEN P ELSE sweep_loop([P EXCEPT !.pcheck = reset(@)])

\* `lineshorten` of tick
lineshorten(P) == shorten(P.bms.shortens, Floor(P.line))

\* The log entry of a release: the lane's pthru and the grading state the
\* release met (P), and the grading state it left (P1).
unpress_entry(P, P1, lane) ==
    [op |-> "unpress", lane |-> lane, thru |-> P.pthru[lane + 1],
     line |-> P.line, bpm |-> P.bpm,
     before |-> P.grades, nograding |-> P.nograding, misses |-> P.gradecounts["MISS"],
     after |-> P1.grades, marked |-> P1.nograding, missed |-> P1.gradecounts["MISS"]]

\* A release that does not mark the LNDone it meets inside the window.
process_unpress_unmarked(P, lane) ==
    LET nextlndone == IF P.pthru[lane + 1] = None THEN None
                      ELSE find_next_of_type(P.bms.objs, P.pthru[lane + 1][1],
                                             lane, {"LNDone"})
        p == nextlndone[1]
        delta == RMul(RMul(measure_to_msec(P.bpm, RSub(P.bms.objs[p + 1].time, P.line)),
                           lineshorten(P)),
                      P.gradefactor)
        P1 == IF nextlndone = None THEN P
              ELSE IF RLt(RAbs(delta), BAD_CUTOFF)
                   THEN P
                   ELSE update_grade_to_miss(P, p)
    IN  [P1 EXCEPT !.pthru[lane + 1] = None,
                   !.log = Append(@, unpress_entry(P, P1, lane))]

\* process_unpress
process_unpress(P, lane) ==
    LET nextlndone == IF P.pthru[lane + 1] = None THEN None
                      ELSE find_next_of_type(P.bms.objs, P.pthru[lane + 1][1],
                                             lane, {"LNDone"})
        p == nextlndone[1]
        delta == RMul(RMul(measure_to_msec(P.bpm, RSub(P.bms.objs[p + 1].time, P.line)),
                           lineshorten(P)),
                      P.gradefactor)
        P1 == IF nextlndone = None THEN P
              ELSE IF RLt(RAbs(delta), BAD_CUTOFF)
                   THEN [P EXCEPT !.nograding[p + 1] = TRUE]
                   ELSE update_grade_to_miss(P, p)
    IN  [P1 EXCEPT !.pthru[lane + 1] = None,
                   !.log = Append(@, unpress_entry(P, P1, lane))]

\* process_press; its log entry keeps what the press met and what it graded.
process_press(P, lane) ==
    LET gradable == find_closest_of_type(P.bms.objs, P.pcur.pos, P.line, lane,
                                         {"Visible", "LNStart", "LNDone"})
        p == gradable[1]
        obj == P.bms.objs[p + 1]
        dist == RMul(RMul(measure_to_msec(P.bpm, RSub(obj.time, P.line)),
                          lineshorten(P)),
                     P.gradefactor)
        hit == /\ gradable # None
               /\ p >= P.pcheck.pos /\ ~P.nograding[p + 1] /\ ~is_lndone(obj)
               /\ RLt(RAbs(dist), BAD_CUTOFF)
        P1 == IF hit
              THEN update_grade_from_distance(
                       [P EXCEPT !.pthru[lane + 1] = IF is_lnstart(obj) THEN Some(p) ELSE @,
                                 !.nograding[p + 1] = TRUE],
                       p, dist)
              ELSE P
    IN  logged(P1, [op |-> "press", lane |-> lane, pcur |-> P.pcur.pos,
                    before |-> P.grades, nograding |-> P.nograding,
                    pos |-> IF hit THEN gradable ELSE None,
                    grade |-> IF hit THEN Some(P1.lastgrade[1][1]) ELSE None])

\* is_unpressed: the multiplicity afterwards; it answers true when that is 0.
unpressed_multiplicity(P, lane) ==
    IF P.keymultiplicity[lane + 1] > 0 THEN P.keymultiplicity[lane + 1] - 1 ELSE 0

\* One polled event: Quit, or a key of a lane going down (Positive) or up
\* (Neutral).
process_event(P, ev) ==
    IF ev.key = "Quit" THEN logged([P EXCEPT !.pc = "ended"], [op |-> "quit"])
    ELSE IF ev.state = "Neutral"
    THEN LET P1 == [P EXCEPT !.keymultiplicity[ev.lane + 1] =
                                  unpressed_multiplicity(P, ev.lane)]
         IN  IF P1.keymultiplicity[ev.lane + 1] = 0
             THEN process_unpress(P1, ev.lane) ELSE P1
    ELSE LET P1 == [P EXCEPT !.keymultiplicity[ev.lane + 1] = @ + 1]
         IN  IF P1.keymultiplicity[ev.lane + 1] = 1
             THEN process_press(P1, ev.lane) ELSE P1

\* tick: process inputs; Quit returns false at once.
RECURSIVE tick_inputs(_, _)
tick_inputs(P, events) ==
    IF P.pc # "playing" \/ events = <<>> THEN P
    ELSE tick_inputs(process_event(P, Head(events)), Tail(events))

RECURSIVE bombs_loop(_, _)
bombs_loop(P, prevpcur) ==
    LET n == next_to(prevpcur, P.pcur)
        pos == n.ptr.pos
        obj == P.bms.objs[pos + 1]
        damage == bomb_damage(obj)
        P1 == logged(update_grade_from_damage([P EXCEPT !.pthru[obj.lane[1] + 1] = None],
                                              pos, damage),
                     [op |-> "bomb", pos |-> pos])
    IN  IF ~n.more THEN P
        ELSE IF obj.kind = "Bomb" /\ key_pressed(P, obj.lane[1])
        THEN (IF keepgoing(damage)
              THEN bombs_loop(P1, n.ptr)
              ELSE [P1 EXCEPT !.pcur = seek_to_end(P.bms.objs, @), !.pc = "ended"])
        ELSE bombs_loop(P, n.ptr)

\* tick: process bombs, from the pcur of the previous tick to the new one.
tick_bombs(P, prevpcur) ==
    IF P.pc # "playing" THEN P ELSE bombs_loop(P, Pointer(prevpcur))

\* A finish that keeps playing before the origin.
tick_finish_rewinding(P, sounding) ==
    LET passed == RLt(I(P.bms.nmeasures + 1), P.bottom)
        P1 == IF passed THEN logged(P, [op |-> "finish", sounding |-> sounding]) ELSE P
    IN  IF P.pc # "playing" THEN P
        ELSE IF passed => sounding THEN P1 ELSE [P1 EXCEPT !.pc = "ended"]

\* tick: determines if we should keep playing; `sounding` is what the mixer
\* answers past the end of the chart, logged when the mixer is asked.
tick_finish(P, sounding) ==
    LET passed == RLt(I(P.bms.nmeasures + 1), P.bottom)
        keep == IF passed THEN sounding
                ELSE IF RLt(P.bottom, P.originoffset) THEN FALSE
                ELSE TRUE
        P1 == IF passed THEN logged(P, [op |-> "finish", sounding |-> sounding]) ELSE P
    IN  IF P.pc # "playing" THEN P
        ELSE IF keep THEN P1 ELSE [P1 EXCEPT !.pc = "ended"]

\* A tick that polls the input before it sweeps.
tick_run_inputs_first(P, now, events) ==
    LET P1 == tick_effects(tick_scaling(tick_clock(P, now)))
    IN  tick_bombs(tick_sweep(tick_inputs(P1, events)), P.pcur.pos)

\* Player::tick up to the bombs.
tick_run(P, now, events) ==
    LET P1 == tick_effects(tick_scaling(tick_clock(P, now)))
    IN  tick_bombs(tick_inputs(tick_sweep(P1), events), P.pcur.pos)

----------------------------------------------------------------------------
(* Play: charts, the instants at which tick is called and the keys bound.  *)

\* The most events polled in one tick and the most keys bound to one lane.
MaxEvents == 1
MaxKeys == 1

Bms(raw, shortens, initbpm, nmeasures) ==
    [objs |-> sanitize_bms(raw), shortens |-> shortens, initbpm |-> initbpm,
     rank |-> 2, nmeasures |-> nmeasures]

\* One note, and a BGM just behind it.
ChartNote == Bms(<<Visible(I(1), 0, None), BGM(Q(21, 20), 1)>>, <<>>, I(120), 2)

\* Two notes of one lane 40 ms apart, and a note of another lane.
ChartPair ==
    Bms(<<Visible(I(1), 0, None), Visible(Q(51, 50), 0, None), Visible(I(1), 1, None)>>,
        <<>>, I(120), 2)

\* Two long notes in one lane.
ChartLN ==
    Bms(<<LNStart(I(1), 0, None), LNDone(Q(11, 10), 0, None),
          LNStart(Q(6, 5), 0, None), LNDone(Q(13, 10), 0, None)>>, <<>>, I(120), 2)

\* A slower BPM, then a stop of half a second.
ChartStop ==
    Bms(<<SetBPM(I(1), I(60)), Stop(Q(3, 2), "Seconds", Q(1, 2)),
          Visible(Q(7, 4), 0, None)>>, <<>>, I(120), 2)

\* Measure 1 twice as long, a note and a BPM change near its end.
ChartScaled ==
    Bms(<<Visible(Q(19, 10), 0, None), SetBPM(Q(39, 20), I(120))>>,
        <<I(1), I(2)>>, I(240), 3)

\* Two BPM changes close to each other.
ChartBPMs ==
    Bms(<<SetBPM(I(1), I(60)), Visible(Q(6, 5), 0, None), SetBPM(Q(7, 5), I(240))>>,
        <<>>, I(240), 2)

\* A note, a bomb behind it, and an instant-death bomb in another lane.
ChartBombs ==
    Bms(<<Visible(I(1), 0, None), Bomb(Q(41, 40), 0, None, Q(1, 10)),
          DeathBomb(Q(11, 10), 1, None)>>, <<>>, I(120), 2)

\* A stop of half a second, and a shorter stop of 1/20 measure just behind it.
ChartStops ==
    Bms(<<Stop(I(1), "Seconds", Q(1, 2)), Stop(Q(21, 20), "Measures", Q(1, 20))>>,
        <<>>, I(120), 2)

\* A negative BPM from measure 1 on: the position turns back to the origin.
ChartRewind == Bms(<<SetBPM(I(1), I(-120))>>, <<>>, I(120), 2)

PlayCases ==
    {[bms |-> ChartNote, keymap |-> {0},
      clock |-> {1800, 1900, 1990, 2040, 2080, 2150, 6100}],
     [bms |-> ChartPair, keymap |-> {0, 1},
      clock |-> {1990, 1995, 2000, 2250}],
     [bms |-> ChartLN, keymap |-> {0},
      clock |-> {1990, 2010, 2150, 2200, 2300, 2350, 2600, 2800}],
     [bms |-> ChartStop, keymap |-> {0},
      clock |-> {1900, 2100, 2101, 4100, 4200, 4700, 5600}],
     [bms |-> ChartScaled, keymap |-> {0},
      clock |-> {900, 1100, 2840, 2950, 3010, 3200}],
     [bms |-> ChartBPMs, keymap |-> {0},
      clock |-> {1500, 1600, 2700}],
     [bms |-> ChartBombs, keymap |-> {0, 1},
      clock |-> {1990, 2100, 2250, 2500}],
     [bms |-> ChartStops, keymap |-> {0},
      clock |-> {2050, 2200, 2500, 2700, 2800}],
     [bms |-> ChartRewind, keymap |-> {0},
      clock |-> {1900, 2100, 2200, 4100, 4200}]}

Events(keymap) ==
    {[key |-> "Quit", lane |-> 0, state |-> "Neutral"]}
    \cup [key : {"Lane"}, lane : keymap, state : {"Positive", "Neutral"}]

EventSeqs(keymap) == UNION {[1..n -> Events(keymap)] : n \in 0..MaxEvents}

\* player.clock and player.keymap: the readings get_ticks() can give in this
\* run and the lanes that have keys.
PlayInit ==
    /\ \E c \in PlayCases :
         player = [clock |-> c.clock, keymap |-> c.keymap] @@ new_player(c.bms, 0)
    /\ tl = Idle /\ pp = Idle /\ sz = Idle /\ kc = Idle /\ rp = Idle /\ ptr = Idle
    /\ loop = Idle

\* One call of Player::tick (tick_run, then tick_finish), with the clock
\* reading, the events polled and the mixer's answer.
Tick ==
    /\ player.pc = "playing"
    /\ \E now \in {t \in player.clock : t >= player.now},
          events \in EventSeqs(player.keymap) :
         \E P \in {tick_run(player, now, events)} :
            /\ \A l \in 1..NLANES : P.keymultiplicity[l] <= MaxKeys
            /\ \E sounding \in BOOLEAN : player' = tick_finish(P, sounding)
    /\ UNCHANGED <<tl, pp, sz, kc, rp, ptr, loop>>

PlayNext == Tick

SpecPlay == PlayInit /\ [][PlayNext]_vars

\* The normalized distance in milliseconds that a press measures between the
\* grading line and object i (1-based).
press_distance(P, i) ==
    RAbs(RMul(RMul(measure_to_msec(P.bpm, RSub(P.bms.objs[i].time, P.line)),
                   lineshorten(P)),
              P.gradefactor))

claimed_rank(op) ==
    IF op \in {"rebase", "scaling", "effect"} THEN 1
    ELSE IF op \in {"press", "unpress"} THEN 2
    ELSE IF op = "sweep" THEN 3
    ELSE 0

\* The place the code gives it: effects, the miss sweep, key events, bombs.
code_rank(op) ==
    IF op \in {"rebase", "scaling", "effect"} THEN 1
    ELSE IF op = "sweep" THEN 2
    ELSE IF op \in {"press", "unpress"} THEN 3
    ELSE 4

\* C4 as claimed: within a tick the effects come first, then the key events,
\* then the miss sweep.
C4_EffectsInputsSweep ==
    \A i, j \in 1..Len(player.log) :
        (i < j /\ claimed_rank(player.log[i].op) # 0 /\ claimed_rank(player.log[j].op) # 0)
        => claimed_rank(player.log[i].op) <= claimed_rank(player.log[j].op)

\* C4, amended: within a tick the effects come first, then the miss sweep,
\* then the key events, then the bombs.
C4_EffectsSweepInputsBombs ==
    \A i, j \in 1..Len(player.log) :
        i < j => code_rank(player.log[i].op) <= code_rank(player.log[j].op)

\* A tick that applied an effect, swept an object and took a key press.
C4_Witness ==
    /\ \E i \in 1..Len(player.log) : player.log[i].op = "effect"
    /\ \E i \in 1..Len(player.log) : player.log[i].op = "sweep"
    /\ \E i \in 1..Len(player.log) : player.log[i].op = "press"

\* The tiers of the claim.
claimed_grade(d) ==
    IF RLt(d, Q(72, 5)) THEN "COOL"
    ELSE IF RLt(d, I(48)) THEN "GREAT"
    ELSE IF RLt(d, I(84)) THEN "GOOD"
    ELSE "BAD"

\* C5 as claimed: a press grades the closest Visible or LNStart of the lane
\* that has no grade yet, by its distance d: COOL < 14.4, GREAT < 48,
\* GOOD < 84, BAD < 144, and nothing at d >= 144.
C5_PressGradesClosestUngraded ==
    \A k \in 1..Len(player.log) :
        player.log[k].op = "press" =>
            LET e == player.log[k]
                U == {i \in 1..Len(player.bms.objs) :
                        /\ of_type(player.bms.objs[i], e.lane, {"Visible", "LNStart"})
                        /\ e.before[i] = 0}
                closest == {i \in U : \A j \in U :
                              RLe(press_distance(player, i), press_distance(player, j))}
            IN  IF U = {} THEN e.pos = None
                ELSE \E i \in closest :
                        IF RLt(press_distance(player, i), I(144))
                        THEN /\ e.pos = Some(i - 1)
                             /\ e.grade = Some(claimed_grade(press_distance(player, i)))
                        ELSE e.pos = None

\* C5, amended: the press looks at one object only, the nearer to the line of
\* the last gradable object of the lane before the cursor and the first one
\* at or after it (the latter on a tie).  It grades it by the claim's tiers if
\* it is a Visible or LNStart with no grade yet that the sweep has not passed
\* and d < 144; otherwise the press records no grade.
C5_PressGradesNearestAtCursor ==
    \A k \in 1..Len(player.log) :
        player.log[k].op = "press" =>
            LET e == player.log[k]
                objs == player.bms.objs
                G == {i \in 1..Len(objs) : of_type(objs[i], e.lane, {"Visible", "LNStart", "LNDone"})}
                before == {i \in G : i <= e.pcur}
                after == {i \in G : i > e.pcur}
                prev == CHOOSE i \in before : \A j \in before : j <= i
                next == CHOOSE i \in after : \A j \in after : j >= i
                target == IF before = {} THEN next
                          ELSE IF after = {} THEN prev
                          ELSE IF RLt(press_distance(player, prev), press_distance(player, next))
                               THEN prev ELSE next
            IN  IF /\ G # {}
                   /\ ~is_lndone(objs[target])
                   /\ e.before[target] = 0
                   /\ target > player.pcheck.pos
                   /\ RLt(press_distance(player, target), I(144))
                THEN /\ e.pos = Some(target - 1)
                     /\ e.grade = Some(claimed_grade(press_distance(player, target)))
                ELSE e.pos = None /\ e.grade = None

\* BPM 120, scaling 1, rank 2: a press 10 ms from the note has graded it COOL.
C5_Witness ==
    /\ player.bms = ChartNote
    /\ \E k \in 1..Len(player.log) :
         /\ player.log[k].op = "press"
         /\ player.log[k].grade = Some("COOL")
         /\ press_distance(player, 1) = I(10)

\* The position the origin of a rebase entry gives wall time t.
origin_position(e, t) ==
    RAdd(e.startoffset, RDiv(msec_to_measure(e.bpm, I(t - e.starttime)), e.startshorten))

\* Whether a tick with this log moved the origin: a rebase or a Stop.
origin_moved(P) ==
    \E k \in 1..Len(P.log) :
        \/ P.log[k].op = "rebase"
        \/ P.log[k].op = "effect" /\ P.bms.objs[P.log[k].pos + 1].kind = "Stop"

----------------------------------------------------------------------------
(* The alphanumeric key codec: fmt::Show for Key, getdigit, key2index and  *)
(* Key::from_str_prefix.  A text is a sequence of characters, a character  *)
(* a string of length 1.                                                   *)

\* The number of all possible alphanumeric keys.
MAXKEY == 36 * 36

\* The characters '0'...'9', 'A'...'Z' and 'a'...'z' in code order.
Digits == <<"0", "1", "2", "3", "4", "5", "6", "7", "8", "9">>
Uppers == <<"A", "B", "C", "D", "E", "F", "G", "H", "I", "J", "K", "L", "M",
            "N", "O", "P", "Q", "R", "S", "T", "U", "V", "W", "X", "Y", "Z">>
Lowers == <<"a", "b", "c", "d", "e", "f", "g", "h", "i", "j", "k", "l", "m",
            "n", "o", "p", "q", "r", "s", "t", "u", "v", "w", "x", "y", "z">>

Range(seq) == {seq[i] : i \in 1..Len(seq)}

\* (n as int) - (first as int) for a character n of the run `chars`.
offset_in(chars, n) == (CHOOSE i \in 1..Len(chars) : chars[i] = n) - 1

\* Key::is_valid
is_valid(key) == 0 <= key /\ key < MAXKEY

\* Key::to_hex
to_hex(key) ==
    LET sixteens == key \div 36
        ones == key % 36
    IN  IF sixteens < 16 /\ ones < 16 THEN Some(sixteens * 16 + ones) ELSE None

\* b"0123456789ABCDEFGHIJKLMNOPQRSTUVWXYZ" of fmt::Show for Key
map == Digits \o Uppers

\* fmt::Show for Key, for a valid key (the source asserts is_valid first).
fmt(key) == <<map[(key \div 36) + 1], map[(key % 36) + 1]>>

\* A getdigit that takes the capital letters only.
getdigit_capitals(n) ==
    IF n \in Range(Digits) THEN Some(offset_in(Digits, n))
    ELSE IF n \in Range(Uppers) THEN Some(offset_in(Uppers, n) + 10)
    ELSE None

getdigit(n) ==
    IF n \in Range(Digits) THEN Some(offset_in(Digits, n))
    ELSE IF n \in Range(Lowers) THEN Some(offset_in(Lowers, n) + 10)
    ELSE IF n \in Range(Uppers) THEN Some(offset_in(Uppers, n) + 10)
    ELSE None

key2index(s) ==
    IF Len(s) < 2 THEN None
    ELSE LET a == getdigit(s[1])
             b == getdigit(s[2])
         IN  IF a = None THEN None
             ELSE IF b = None THEN None
             ELSE Some(a[1] * 36 + b[1])

\* Key::from_str_prefix: the key and the rest of the text.
from_str_prefix(s) ==
    IF Len(s) < 2 THEN None
    ELSE LET a == getdigit(s[1])
             b == getdigit(s[2])
         IN  IF a = None THEN None
             ELSE IF b = None THEN None
             ELSE Some(<<a[1] * 36 + b[1], SubSeq(s, 3, Len(s))>>)

\* The longest text decoded.
MaxText == 3

\* Characters that are no base-36 digit.
Others == {" ", "#", "_", ":"}

\* The characters of the texts of one and two characters, and the fewer
\* characters of the longer texts.
Chars == Range(Digits) \cup Range(Uppers) \cup Range(Lowers) \cup Others
FewChars == {"0", "9", "a", "Z", "#"}

Texts ==
    {<<>>} \cup {<<c>> : c \in Chars} \cup {<<c, d>> : c, d \in Chars}
    \cup UNION {[1..n -> FewChars] : n \in 3..MaxText}

\* Keys to format: every valid key and the two nearest invalid ones.
Keys == -1..MAXKEY

KeyInit ==
    /\ kc \in [pc : {"key"}, key : {Some(k) : k \in Keys}, text : {<<>>},
               decoded : {None}, parsed : {None}]
           \cup [pc : {"text"}, key : {None}, text : Texts,
                 decoded : {None}, parsed : {None}]
    /\ tl = Idle /\ pp = Idle /\ sz = Idle /\ player = Idle /\ rp = Idle /\ ptr = Idle
    /\ loop = Idle

\* format!("{}", key): the assertion fails on an invalid key.
Show ==
    /\ kc.pc = "key"
    /\ kc' = IF is_valid(kc.key[1])
             THEN [kc EXCEPT !.pc = "text", !.text = fmt(kc.key[1])]
             ELSE [kc EXCEPT !.pc = "panicked"]
    /\ UNCHANGED <<tl, pp, sz, player, rp, ptr, loop>>

\* key2index and Key::from_str_prefix on the text.
Decode ==
    /\ kc.pc = "text"
    /\ kc' = [kc EXCEPT !.pc = "decoded",
                        !.decoded = key2index(kc.text),
                        !.parsed = from_str_prefix(kc.text)]
    /\ UNCHANGED <<tl, pp, sz, player, rp, ptr, loop>>

KeyNext == Show \/ Decode

SpecKey == KeyInit /\ [][KeyNext]_vars

\* The text with its small letters made capital.
capitals(s) ==
    [i \in 1..Len(s) |->
        IF s[i] \in Range(Lowers) THEN Uppers[offset_in(Lowers, s[i]) + 1] ELSE s[i]]

\* C13: decoding the text a key of 0..1295 is formatted to gives the key; a
\* text decodes as the same text in capitals does; decoding gives None exactly
\* when the text has fewer than two characters or one of its first two
\* characters is outside 0-9, a-z, A-Z; Key::from_str_prefix decodes the same
\* key and leaves the text after the second character.
C13_KeyRoundTrip ==
    kc.pc = "decoded" =>
        /\ kc.key # None => (Len(kc.text) = 2 /\ kc.decoded = kc.key)
        /\ kc.decoded = key2index(capitals(kc.text))
        /\ kc.decoded = None <=>
              (Len(kc.text) < 2 \/ \E i \in 1..2 : kc.text[i] \notin (Chars \ Others))
        /\ kc.parsed = IF kc.decoded = None THEN None
                       ELSE Some(<<kc.decoded[1], SubSeq(kc.text, 3, Len(kc.text))>>)

\* The key 1295 was formatted (to "ZZ") and decoded.
C13_Witness ==
    /\ kc.pc = "decoded" /\ kc.key = Some(MAXKEY - 1)
    /\ kc.text = <<"Z", "Z">> /\ kc.decoded = Some(1295)

----------------------------------------------------------------------------
(* parse_bms_from_reader after the loop over the lines: the sort of the    *)
(* buffered data lines, their replay through handle_key and the fix-ups.   *)
(* Positions in bms.objs are 0-based as in the source: the object at pos   *)
(* is objs[pos + 1].                                                       *)

DEFAULT_BPM == I(130)

BmsLine(m, chan, data) == [measure |-> m, chan |-> chan, data |-> data]

\* Ord::cmp on two pairs of integers.
cmp(x, y) ==
    IF x[1] < y[1] THEN "Less"
    ELSE IF x[1] > y[1] THEN "Greater"
    ELSE IF x[2] < y[2] THEN "Less"
    ELSE IF x[2] > y[2] THEN "Greater"
    ELSE "Equal"

\* The closure given to bmsline.sort_by:
\* |a, b| (a.measure, b.chan).cmp(&(a.measure, b.chan))
line_order(a, b) == cmp(<<a.measure, b.chan>>, <<a.measure, b.chan>>)

\* sort_by is a stable sort: a line goes behind the last line of the sorted
\* part that the closure does not put after it.
RECURSIVE insert_line(_, _, _)
insert_line(sorted, line, k) ==
    IF k = 0 \/ line_order(sorted[k], line) # "Greater"
    THEN SubSeq(sorted, 1, k) \o <<line>> \o SubSeq(sorted, k + 1, Len(sorted))
    ELSE insert_line(sorted, line, k - 1)

RECURSIVE sort_by(_, _)
sort_by(lines, n) ==
    IF n = 0 THEN <<>>
    ELSE LET sorted == sort_by(lines, n - 1)
         IN  insert_line(sorted, lines[n], Len(sorted))

\* Lane::from_channel, for the channels of the object arms of handle_key.
from_channel(chan) ==
    LET side == IF (chan \div 36) \in {1, 3, 5, 13} THEN 0 ELSE 1
    IN  side * 36 + (chan % 36)

to_lnstart(obj) == [obj EXCEPT !.kind = "LNStart"]

\* The closures `add` and `mark` of the replay; mark gives the position of
\* the object pushed, Len(R.objs) before the push.
add(R, obj) == [R EXCEPT !.objs = Append(@, obj)]

\* channels #1x/2x
handle_visible(R, lane, t, v, lnobj) ==
    IF lnobj # None /\ lnobj = Some(v)
    THEN IF R.lastvis[lane] = None THEN R
         ELSE LET pos == R.lastvis[lane][1]
              IN  IF ~is_visible(R.objs[pos + 1]) THEN [R EXCEPT !.panicked = TRUE]
                  ELSE [R EXCEPT
                          !.objs = Append([R.objs EXCEPT ![pos + 1] = to_lnstart(R.objs[pos + 1])],
                                          LNDone(t, lane, Some(v))),
                          !.lastvis[lane] = None]
    ELSE [R EXCEPT !.lastvis[lane] = Some(Len(R.objs)),
                   !.objs = Append(@, Visible(t, lane, Some(v)))]

\* channels #5x/6x, #LNTYPE 1
handle_ln_endpoint(R, lane, t, v) ==
    IF R.lastln[lane] # None
    THEN [R EXCEPT !.lastln[lane] = None,
                   !.objs = Append(@, LNDone(t, lane, Some(v)))]
    ELSE [R EXCEPT !.lastln[lane] = Some(Len(R.objs)),
                   !.objs = Append(@, LNStart(t, lane, Some(v)))]

\* channels #5x/6x, #LNTYPE 2
handle_ln_area(R, lane, t, t2, v) ==
    IF R.lastln[lane] # None /\ R.objs[R.lastln[lane][1] + 1].time = t
    THEN LET pos == R.lastln[lane][1]
         IN  IF ~is_lndone(R.objs[pos + 1]) THEN [R EXCEPT !.panicked = TRUE]
             ELSE [R EXCEPT !.objs[pos + 1].time = t2]
    ELSE [R EXCEPT !.lastln[lane] = Some(Len(R.objs) + 1),
                   !.objs = @ \o <<LNStart(t, lane, Some(v)), LNDone(t2, lane, Some(v))>>]

\* channels #Dx/Ex
handle_bomb(R, lane, t, v) ==
    IF v \in 1..200 THEN add(R, Bomb(t, lane, Some(0), Q(v, 200)))
    ELSE IF v = 1295 THEN add(R, DeathBomb(t, lane, Some(0)))
    ELSE R

\* The closure handle_key: a non-00 key v of channel chan at t (the next
\* position being t2).  bpmtab and stoptab are as a file with no #BPMxx and
\* no #STOPxx line leaves them: DEFAULT_BPM and Seconds(0.0) at every key.
handle_key(R, chan, t, t2, v, lnobj, consecutiveln) ==
    CASE chan = 1 -> add(R, BGM(t, v))
      [] chan = 3 -> IF to_hex(v) = None THEN R
                     ELSE add(R, SetBPM(t, I(to_hex(v)[1])))
      [] chan = 4 -> add(R, SetBGA(t, "Layer1", Some(v)))
      [] chan = 6 -> [add(R, SetBGA(t, "PoorBGA", Some(v))) EXCEPT !.poorbgafix = FALSE]
      [] chan = 7 -> add(R, SetBGA(t, "Layer2", Some(v)))
      [] chan = 8 -> add(R, SetBPM(t, DEFAULT_BPM))
      [] chan = 9 -> add(R, Stop(t, "Seconds", I(0)))
      [] chan = 10 -> add(R, SetBGA(t, "Layer3", Some(v)))
      [] chan \in 36..107 -> handle_visible(R, from_channel(chan), t, v, lnobj)
      [] chan \in 108..179 -> add(R, Invisible(t, from_channel(chan), Some(v)))
      [] chan \in 180..251 /\ ~consecutiveln ->
            handle_ln_endpoint(R, from_channel(chan), t, v)
      [] chan \in 180..251 /\ consecutiveln ->
            handle_ln_area(R, from_channel(chan), t, t2, v)
      [] chan \in 468..539 -> handle_bomb(R, from_channel(chan), t, v)
      [] OTHER -> R

\* scan_uint from the character at k: how many digits follow.
RECURSIVE scan_uint(_, _)
scan_uint(s, k) ==
    IF k <= Len(s) /\ s[k] \in Range(Digits) THEN 1 + scan_uint(s, k + 1) ELSE 0

\* from_str::<uint> of the n digits from the character at k.
RECURSIVE uint_at(_, _, _)
uint_at(s, k, n) ==
    IF n = 0 THEN 0
    ELSE 10 * uint_at(s, k, n - 1) + offset_in(Digits, s[k + n - 1])

RECURSIVE pow10(_)
pow10(n) == IF n = 0 THEN 1 ELSE 10 * pow10(n - 1)

RECURSIVE skip_ws(_, _)
skip_ws(s, k) == IF k <= Len(s) /\ s[k] = " " THEN skip_ws(s, k + 1) ELSE k

\* lex!(data; ws*, f64 -> shorten) on a text of digits with at most one
\* point: None if it does not match, else the number read.
lex_f64(s) ==
    LET k == skip_ws(s, 1)
        n == scan_uint(s, k)
        point == k + n <= Len(s) /\ s[k + n] = "."
        m == scan_uint(s, k + n + 1)
    IN  IF n = 0 THEN None
        ELSE IF ~point THEN Some(I(uint_at(s, k, n)))
        ELSE IF m = 0 THEN None
        ELSE Some(RAdd(I(uint_at(s, k, n)), Q(uint_at(s, k + n + 1, m), pow10(m))))

\* bms.shortens.grow(ncopies, 1.0)
RECURSIVE grow(_, _)
grow(shortens, len) ==
    IF Len(shortens) >= len THEN shortens ELSE grow(Append(shortens, I(1)), len)

\* A line of channel #02.
replay_shorten(R, line) ==
    LET lexed == lex_f64(line.data)
    IN  IF lexed # None /\ RLt(Q(1, 1000), lexed[1])
        THEN [R EXCEPT !.shortens = [grow(@, line.measure + 1) EXCEPT ![line.measure + 1] = lexed[1]]]
        ELSE R

\* The time of the key at offset i of a line of `max` characters.
key_time(line, i, max) == RAdd(I(line.measure), Q(i, max))

\* The loop over the keys of a line, from offset i.
RECURSIVE replay_keys(_, _, _, _, _)
replay_keys(R, line, i, lnobj, consecutiveln) ==
    LET max == (Len(line.data) \div 2) * 2
        v == key2index(SubSeq(line.data, i + 1, i + 2))
    IN  IF i >= max THEN R
        ELSE replay_keys(
                 IF v # None /\ v[1] # 0
                 THEN handle_key(R, line.chan, key_time(line, i, max),
                                 key_time(line, i + 2, max), v[1], lnobj, consecutiveln)
                 ELSE R,
                 line, i + 2, lnobj, consecutiveln)

replay_line(R, line, lnobj, consecutiveln) ==
    IF line.chan = 2 THEN replay_shorten(R, line)
    ELSE replay_keys(R, line, 0, lnobj, consecutiveln)

\* for line in bmsline.iter(): the first k lines replayed.
RECURSIVE replay_lines(_, _, _, _, _)
replay_lines(R, lines, k, lnobj, consecutiveln) ==
    IF k = 0 THEN R
    ELSE replay_line(replay_lines(R, lines, k - 1, lnobj, consecutiveln),
                     lines[k], lnobj, consecutiveln)

\* if poorbgafix { ... }
fix_poorbga(R) ==
    IF R.poorbgafix THEN add(R, SetBGA(I(0), "PoorBGA", Some(0))) ELSE R

\* bms.nmeasures
nmeasures_of(lines) == (IF lines = <<>> THEN 0 ELSE lines[Len(lines)].measure) + 1

\* fix the unterminated longnote: the lanes from i on.
RECURSIVE fix_longnotes(_, _, _, _)
fix_longnotes(R, i, endt, consecutiveln) ==
    IF i >= NLANES THEN R
    ELSE fix_longnotes(
             IF R.lastvis[i] # None \/ (~consecutiveln /\ R.lastln[i] # None)
             THEN add(R, LNDone(endt, i, None))
             ELSE R,
             i + 1, endt, consecutiveln)

\* What the loop over the lines hands over: the objects of the #STP lines,
\* #LNOBJ and #LNTYPE, and nothing replayed yet.
replay_start(objs, shortens) ==
    [objs |-> objs, shortens |-> shortens, poorbgafix |-> TRUE,
     lastvis |-> [l \in 0..(NLANES - 1) |-> None],
     lastln |-> [l \in 0..(NLANES - 1) |-> None],
     panicked |-> FALSE]

\* The replay of the lines as they are ordered in `lines`, then the fix-ups.
replay(objs, lines, lnobj, consecutiveln) ==
    LET R == replay_lines(replay_start(objs, <<>>), lines, Len(lines), lnobj, consecutiveln)
    IN  fix_longnotes(fix_poorbga(R), 0, I(nmeasures_of(lines)), consecutiveln)

\* The most data lines buffered.
MaxBmsLines == 2

\* Channels: #01 BGM, #02 measure scaling, #06 poor BGA, #12 visible (lane 2),
\* #51 and #52 long notes (lanes 1 and 2).
ChanBGM == 1
ChanShorten == 2
ChanPoorBGA == 6
ChanVisible == 36 + 2
ChanLN1 == (5 * 36) + 1
ChanLN2 == (5 * 36) + 2

\* The key ZZ, the #LNOBJ of the charts that have one.
KeyZZ == MAXKEY - 1

ReplayMeasures == {0, 1, 2}

\* The texts after the colon, by channel.
ReplayData(chan) ==
    CASE chan = ChanBGM -> {<<"0", "1">>}
      [] chan = ChanShorten -> {<<"0", ".", "5">>}
      [] chan = ChanPoorBGA -> {<<"0", "1">>, <<"0", "0", "0", "1">>}
      [] chan = ChanVisible -> {<<"A", "A">>, <<"0", "0", "Z", "Z">>}
      [] chan = ChanLN1 -> {<<"A", "A">>, <<"a", "a", "A", "A">>, <<"0", "0", "A", "A">>,
                            <<"A", "A", "0", "0", "0">>}
      [] chan = ChanLN2 -> {<<"A", "A">>}

ReplayLines ==
    UNION {{BmsLine(m, chan, data) : m \in ReplayMeasures, data \in ReplayData(chan)} :
           chan \in {ChanBGM, ChanShorten, ChanPoorBGA, ChanVisible, ChanLN1, ChanLN2}}

\* The objects pushed while the lines were read: those of the #STP lines.
ReadObjs == {<<>>, <<Stop(Q(7, 2), "Seconds", I(1))>>}

ReplayInit ==
    /\ rp \in [pc : {"buffered"},
               bmsline : UNION {[1..n -> ReplayLines] : n \in 0..MaxBmsLines},
               lnobj : {None, Some(KeyZZ)},
               consecutiveln : BOOLEAN,
               read : ReadObjs,
               sorted : {<<>>}, objs : {<<>>}, shortens : {<<>>}, nmeasures : {0},
               lastvis : {<<>>}, lastln : {<<>>}, panicked : {FALSE}]
    /\ tl = Idle /\ pp = Idle /\ sz = Idle /\ player = Idle /\ kc = Idle /\ ptr = Idle
    /\ loop = Idle

\* The sort of the buffered lines, the loop over the sorted lines and the
\* fix-ups of the end of parse_bms_from_reader.
Replay ==
    /\ rp.pc = "buffered"
    /\ \E sorted \in {sort_by(rp.bmsline, Len(rp.bmsline))} :
       \E R \in {replay(rp.read, sorted, rp.lnobj, rp.consecutiveln)} :
          rp' = [rp EXCEPT !.pc = IF R.panicked THEN "panicked" ELSE "parsed",
                           !.sorted = sorted,
                           !.objs = R.objs,
                           !.shortens = R.shortens,
                           !.nmeasures = nmeasures_of(sorted),
                           !.lastvis = R.lastvis,
                           !.lastln = R.lastln,
                           !.panicked = R.panicked]
    /\ UNCHANGED <<tl, pp, sz, player, kc, ptr, loop>>

ReplayNext == Replay

SpecReplay == ReplayInit /\ [][ReplayNext]_vars

\* The lines in ascending (measure, channel), lines of one measure and channel
\* in their file order.
RECURSIVE insert_by_key(_, _, _)
insert_by_key(sorted, line, k) ==
    IF k = 0 \/ cmp(<<sorted[k].measure, sorted[k].chan>>, <<line.measure, line.chan>>) # "Greater"
    THEN SubSeq(sorted, 1, k) \o <<line>> \o SubSeq(sorted, k + 1, Len(sorted))
    ELSE insert_by_key(sorted, line, k - 1)

RECURSIVE by_measure_and_channel(_, _)
by_measure_and_channel(lines, n) ==
    IF n = 0 THEN <<>>
    ELSE LET sorted == by_measure_and_channel(lines, n - 1)
         IN  insert_by_key(sorted, lines[n], Len(sorted))

\* The positions (1-based) of the long-note ends of a lane that a key of the
\* chart made: the LNDone of the fix-ups has no sound.
ln_ends(objs, lane) ==
    {i \in 1..Len(objs) : objs[i].kind \in {"LNStart", "LNDone"}
                          /\ objs[i].lane = Some(lane) /\ objs[i].sref # None}

\* How many of the positions S hold an object earlier than the one at i.
earlier(objs, S, i) == Cardinality({j \in S : RLt(objs[j].time, objs[i].time)})

distinct_times(objs, S) == \A i, j \in S : i # j => objs[i].time # objs[j].time

\* The lines of the long-note channels of a lane.
ln_lines(lines, lane) ==
    {k \in 1..Len(lines) : lines[k].chan \in 180..251 /\ from_channel(lines[k].chan) = lane}

\* No two long-note lines of the lane are of the same measure.
one_line_per_measure(lines, lane) ==
    \A j, k \in ln_lines(lines, lane) : j # k => lines[j].measure # lines[k].measure

\* C11: in endpoint mode, with no #LNOBJ and one long-note line of the lane
\* per measure, the keys of a long-note lane alternate in time order: the
\* k-th is an LNStart when k is odd and an LNDone when k is even; so two keys
\* at measures 1 and 2 give one LNStart at 1 and one LNDone at 2.
C11_EndpointsAlternate ==
    (rp.pc = "parsed" /\ ~rp.consecutiveln /\ rp.lnobj = None)
    => \A lane \in 0..(NLANES - 1) :
          LET S == ln_ends(rp.objs, lane)
          IN  (one_line_per_measure(rp.bmsline, lane) /\ distinct_times(rp.objs, S))
              => \A i \in S : is_lnstart(rp.objs[i]) <=> (earlier(rp.objs, S, i) % 2 = 0)

\* The offsets of the keys of a line that are read and are not 00.
key_offsets(line) ==
    {i \in 0..(Len(line.data) - 2) :
        /\ i % 2 = 0
        /\ key2index(SubSeq(line.data, i + 1, i + 2)) \notin {None, Some(0)}}

\* The slots <<start, end>> the keys of the long-note lines of a lane fill.
ln_slots(lines, lane) ==
    UNION {{<<key_time(lines[k], i, (Len(lines[k].data) \div 2) * 2),
              key_time(lines[k], i + 2, (Len(lines[k].data) \div 2) * 2)>> :
            i \in key_offsets(lines[k])} : k \in ln_lines(lines, lane)}

\* The objects of a kind of a lane at a time that a key of the chart made.
ends_at(objs, lane, kind, t) ==
    {i \in 1..Len(objs) : /\ objs[i].kind = kind /\ objs[i].lane = Some(lane)
                          /\ objs[i].time = t /\ objs[i].sref # None}

\* C12: in area mode, with no #LNOBJ and one long-note line of the lane per
\* measure, every run of filled adjacent slots of a lane gives one LNStart at
\* the start of its first slot, one LNDone at the end of its last slot and
\* no LNStart or LNDone where one slot of the run ends and the next begins,
\* the end of a measure included.
C12_AreaRunsMerge ==
    (rp.pc = "parsed" /\ rp.consecutiveln /\ rp.lnobj = None)
    => \A lane \in 0..(NLANES - 1) :
          LET slots == ln_slots(rp.bmsline, lane)
              starts == {s[1] : s \in slots}
              stops == {s[2] : s \in slots}
          IN  one_line_per_measure(rp.bmsline, lane)
              => /\ \A t \in starts \cap stops :
                       /\ ends_at(rp.objs, lane, "LNStart", t) = {}
                       /\ ends_at(rp.objs, lane, "LNDone", t) = {}
                 /\ \A t \in starts \ stops :
                       Cardinality(ends_at(rp.objs, lane, "LNStart", t)) = 1
                 /\ \A t \in stops \ starts :
                       Cardinality(ends_at(rp.objs, lane, "LNDone", t)) = 1

\* C18: the lines are replayed in ascending (measure, channel), lines of one
\* measure and channel in their file order, and the objects are those of the
\* replay of the lines so ordered.
C18_ReplayedInOrder ==
    rp.pc = "parsed"
    => /\ rp.sorted = by_measure_and_channel(rp.bmsline, Len(rp.bmsline))
       /\ rp.objs = replay(rp.read, by_measure_and_channel(rp.bmsline, Len(rp.bmsline)),
                           rp.lnobj, rp.consecutiveln).objs

\* C19: when no key of channel #06 stands at time 0, the objects hold a
\* SetBGA(PoorBGA, key 0) at time 0.
C19_PoorBgaAtOrigin ==
    rp.pc = "parsed"
    => ((\A i \in 1..Len(rp.objs) :
            ~(rp.objs[i].kind = "SetBGA" /\ rp.objs[i].layer = "PoorBGA"
              /\ rp.objs[i].time = I(0) /\ rp.objs[i].sref # Some(0)))
        => \E i \in 1..Len(rp.objs) : rp.objs[i] = SetBGA(I(0), "PoorBGA", Some(0)))

\* C20: every lane left with a visible object that may still get its marker,
\* or in endpoint mode with an open LNStart, has an LNDone with no sound at
\* time nmeasures, and no object of the chart is later than nmeasures.
C20_OpenLanesClosedAtEnd ==
    rp.pc = "parsed"
    => \A lane \in 0..(NLANES - 1) :
          (rp.lastvis[lane] # None \/ (~rp.consecutiveln /\ rp.lastln[lane] # None))
          => /\ \E i \in 1..Len(rp.objs) : rp.objs[i] = LNDone(I(rp.nmeasures), lane, None)
             /\ \A i \in 1..Len(rp.objs) : RLe(rp.objs[i].time, I(rp.nmeasures))

----------------------------------------------------------------------------
(* compact_bms, called on the sanitized chart once the key layout is       *)
(* known.  keyspec.kinds is a function from the lanes to Option<KeyKind>.  *)

\* The first loop: the objects of a lane without a kind are demoted.
compact_demote(objs, kinds) ==
    [i \in 1..Len(objs) |->
        IF object_lane(objs[i]) # None /\ kinds[object_lane(objs[i])[1]] = None
        THEN remove_or_replace_note(objs[i])
        ELSE objs[i]]

\* A compaction that leaves the placeholders in the list.
compact_bms_unretained(objs, kinds) == compact_demote(objs, kinds)

\* The loop, then bms.objs.retain(|obj| obj.data != Deleted).
compact_bms(objs, kinds) ==
    SelectSeq(compact_demote(objs, kinds), LAMBDA o : o.kind # "Deleted")

\* The objects of the charts compacted: with a sound (Visible), without one
\* (the LNDone that the end of the parse adds), and Bombs, which the parser
\* always gives the sound 00.
CompactObjs ==
    UNION {{Visible(t, l, Some(1)), LNDone(t, l, None), Bomb(t, l, Some(0), Q(1, 2))} :
           t \in SanTimes, l \in SanLanes}

CompactCharts == UNION {[1..n -> CompactObjs] : n \in 0..MaxObjs}

\* The key layouts tried: both lanes of the charts, or lane 0 alone.
KeyKinds ==
    {[l \in 0..(NLANES - 1) |-> IF l \in S THEN Some("WhiteKey") ELSE None] :
        S \in {{0, 1}, {0}}}

CompactInit ==
    /\ sz \in [pc : {"parsed"}, raw : CompactCharts, objs : {<<>>}, before : {<<>>},
               panicked : {FALSE}, kinds : {<<>>}]
    /\ tl = Idle /\ pp = Idle /\ player = Idle /\ kc = Idle /\ rp = Idle /\ ptr = Idle
    /\ loop = Idle

Compact ==
    /\ sz.pc = "sanitized"
    /\ \E kinds \in KeyKinds :
          sz' = [sz EXCEPT !.pc = "compacted", !.before = sz.objs, !.kinds = kinds,
                           !.objs = compact_bms(sz.objs, kinds)]
    /\ UNCHANGED <<tl, pp, player, kc, rp, ptr, loop>>

CompactNext == Sanitize \/ Compact

SpecCompact == CompactInit /\ [][CompactNext]_vars

\* The placeholder left where an object was.
Deleted(t) == mkobj(t, "Deleted", None, None, "", I(0), "")

\* The raw chart in the order sanitize_bms works on.
sanitizer_input == sort_by_time(sz.raw)

\* Some object of the list still carries the sound at the time.
sound_carried(objs, t, sref) ==
    \E j \in 1..Len(objs) :
        /\ objs[j].kind \in {"Visible", "Invisible", "LNStart", "LNDone", "Bomb", "BGM"}
        /\ objs[j].time = t
        /\ objs[j].sref = sref

\* C22 as stated: a demoted lane object with a sound becomes a BGM with that
\* sound at that time, one without a sound becomes Deleted, and every sound
\* of a lane object is still carried at its time after the sanitizer and
\* after the compactor.
C22_SoundKept ==
    /\ sz.pc = "sanitized" =>
          \A i \in 1..Len(sz.objs) :
              \E o \in {sanitizer_input[i]} :
                  /\ sz.objs[i] # o =>
                        /\ is_object(o)
                        /\ sz.objs[i] = (IF o.sref # None THEN BGM(o.time, o.sref[1])
                                         ELSE Deleted(o.time))
                  /\ (is_object(o) /\ o.sref # None)
                        => sound_carried(sz.objs, o.time, o.sref)
    /\ sz.pc = "compacted" =>
          \A i \in 1..Len(sz.before) :
              (is_object(sz.before[i]) /\ sz.before[i].sref # None)
              => sound_carried(sz.objs, sz.before[i].time, sz.before[i].sref)

\* C22: a demoted Visible, Invisible, LNStart or LNDone with a sound becomes a
\* BGM with that sound at that time; a demoted object without a sound, and a
\* demoted Bomb, becomes Deleted; every sound of a Visible, Invisible, LNStart
\* or LNDone is still carried at its time after the sanitizer and after the
\* compactor.
C22_NoteSoundKept ==
    /\ sz.pc = "sanitized" =>
          \A i \in 1..Len(sz.objs) :
              \E o \in {sanitizer_input[i]} :
                  /\ sz.objs[i] # o =>
                        /\ is_object(o)
                        /\ sz.objs[i] = (IF is_soundable(o) /\ o.sref # None
                                         THEN BGM(o.time, o.sref[1])
                                         ELSE Deleted(o.time))
                  /\ (is_soundable(o) /\ o.sref # None)
                        => sound_carried(sz.objs, o.time, o.sref)
    /\ sz.pc = "compacted" =>
          \A i \in 1..Len(sz.before) :
              (is_soundable(sz.before[i]) /\ sz.before[i].sref # None)
              => sound_carried(sz.objs, sz.before[i].time, sz.before[i].sref)

\* A compacted chart in which the sanitizer had turned a Visible into a BGM
\* and an object without a sound into Deleted, and the compactor demoted a
\* Visible of a lane outside the layout.
C22_Witness ==
    /\ sz.pc = "compacted"
    /\ \E i \in 1..Len(sz.before) :
          is_visible(sanitizer_input[i]) /\ sz.before[i].kind = "BGM"
    /\ \E i \in 1..Len(sz.before) :
          sanitizer_input[i].sref = None /\ sz.before[i].kind = "Deleted"
    /\ \E i \in 1..Len(sz.before) :
          /\ is_visible(sz.before[i])
          /\ sz.kinds[sz.before[i].lane[1]] = None
          /\ sound_carried(sz.objs, sz.before[i].time, sz.before[i].sref)

\* Strictly increasing maps of the places of `objs` into the places of `from`.
embeddings(objs, from) ==
    {f \in [1..Len(objs) -> 1..Len(from)] :
        \A a, b \in 1..Len(objs) : a < b => f[a] < f[b]}

\* C23: after compact_bms, objs holds no Deleted placeholder and no lane
\* object of a lane without a kind in the layout, and it is the list before
\* with some places taken out and some objects demoted to BGM, in the same
\* order: a list sorted by time stays sorted.
C23_CompactedInOrder ==
    sz.pc = "compacted" =>
        /\ \A i \in 1..Len(sz.objs) :
              /\ sz.objs[i].kind # "Deleted"
              /\ object_lane(sz.objs[i]) # None
                    => sz.kinds[object_lane(sz.objs[i])[1]] # None
        /\ \E f \in embeddings(sz.objs, sz.before) :
              \A i \in 1..Len(sz.objs) :
                  \/ sz.objs[i] = sz.before[f[i]]
                  \/ /\ sz.objs[i].kind = "BGM"
                     /\ sz.objs[i].time = sz.before[f[i]].time
                     /\ sz.objs[i].sref = sz.before[f[i]].sref
        /\ sorted_by_time(sz.before) => sorted_by_time(sz.objs)

\* A compacted chart that had a placeholder and an object of a lane outside
\* the layout before, and keeps two objects of different times.
C23_Witness ==
    /\ sz.pc = "compacted"
    /\ \E i \in 1..Len(sz.before) : sz.before[i].kind = "Deleted"
    /\ \E i \in 1..Len(sz.before) :
          object_lane(sz.before[i]) # None /\ sz.kinds[sz.before[i].lane[1]] = None
    /\ \E a, b \in 1..Len(sz.objs) : RLt(sz.objs[a].time, sz.objs[b].time)

----------------------------------------------------------------------------
(* Long notes under input: the release and the miss sweep.                 *)

\* The distance in milliseconds, scaled as the grading scales it, from the
\* grading line of a release to an object.
release_distance(e, obj) ==
    RAbs(RMul(RMul(measure_to_msec(e.bpm, RSub(obj.time, e.line)),
                   shorten(player.bms.shortens, Floor(e.line))),
              player.gradefactor))

\* The releases of the tick's log that met a long note whose LNStart a press
\* had graded and whose LNDone is in the chart.
ln_releases ==
    {k \in 1..Len(player.log) :
        /\ player.log[k].op = "unpress"
        /\ player.log[k].thru # None
        /\ matching_lndone(player.bms.objs, player.log[k].thru[1] + 1,
                           player.log[k].thru[1] + 2) # 0}

\* What a release of the tick's log did to the LNDone of its long note.
release_grades_ln(k) ==
    LET e == player.log[k]
        j == matching_lndone(player.bms.objs, e.thru[1] + 1, e.thru[1] + 2)
    IN  /\ e.before[e.thru[1] + 1] = 1
        /\ IF RLt(release_distance(e, player.bms.objs[j]), BAD_CUTOFF)
           THEN e.after = e.before /\ e.missed = e.misses /\ e.marked[j]
           ELSE /\ e.after = [e.before EXCEPT ![j] = @ + 1]
                /\ e.missed = e.misses + 1
        /\ (\A m \in (k + 1)..Len(player.log) : player.log[m].op # "press")
              => player.pthru[e.lane + 1] = None

\* An LNDone marked as already graded gets no grade in the step.
marked_lndone_kept ==
    \A i \in 1..Len(player.bms.objs) :
        (is_lndone(player.bms.objs[i]) /\ player.nograding[i])
        => player'.grades[i] = player.grades[i]

C26_SweepMissesOpenLN ==
    player.pc \in {"playing", "ended"} =>
        \A k \in 1..Len(player.log) :
            \E e \in {player.log[k]} :
                (/\ e.op = "sweep"
                 /\ is_lndone(player.bms.objs[e.pos + 1])
                 /\ e.missed)
                => /\ e.graded = 0
                   /\ e.thru # None
                   /\ matching_lndone(player.bms.objs, e.thru[1] + 1, e.thru[1] + 2)
                        = e.pos + 1

----------------------------------------------------------------------------
(* The scroll stopper.                                                     *)

\* The places in the tick's log of the Stops the tick reached.
stops_reached(log) ==
    {k \in 1..Len(log) :
        log[k].op = "effect" /\ player.bms.objs[log[k].pos + 1].kind = "Stop"}

\* The BPM in force at place k of the tick's log: that of the last SetBPM the
\* tick reached before it, or the BPM the tick began with.
RECURSIVE bpm_at(_, _, _)
bpm_at(log, k, bpm) ==
    IF k = 0 THEN bpm
    ELSE IF log[k].op = "effect" /\ player.bms.objs[log[k].pos + 1].kind = "SetBPM"
    THEN player.bms.objs[log[k].pos + 1].val
    ELSE bpm_at(log, k - 1, bpm)

\* The wall time at which the Stop at place k of the log ends by itself.
stop_end(log, k, bpm, now) ==
    now + Trunc(to_msec(player.bms.objs[log[k].pos + 1].unit,
                        player.bms.objs[log[k].pos + 1].val, bpm_at(log, k, bpm)))

\* What a tick does with the clock: the position it reports and the stop.
tick_keeps_stop ==
    player'.pc \in {"playing", "ended"} =>
        /\ IF player.stoptime # None
           THEN /\ player'.bottom = player.startoffset
                /\ player'.now >= player.stoptime[1]
                      => player'.starttime = player.stoptime[1] /\ player'.stoptime = None
                /\ player'.now < player.stoptime[1]
                      => player'.stoptime = player.stoptime
           ELSE player'.bottom =
                    RAdd(player.startoffset,
                         RDiv(msec_to_measure(player.bpm, I(player'.now - player.starttime)),
                              player.startshorten))
        /\ \E S \in {stops_reached(player'.log)} :
              S # {} =>
                /\ player.stoptime = None
                /\ player'.stoptime # None
                /\ \A k \in S :
                      player'.stoptime[1] >= stop_end(player'.log, k, player.bpm, player'.now)
                /\ \E k \in S :
                      player'.stoptime[1] = stop_end(player'.log, k, player.bpm, player'.now)
                /\ \E k \in S : player'.startoffset = player.bms.objs[player'.log[k].pos + 1].time

----------------------------------------------------------------------------
(* Grading alone: update_grade and its three callers on the statistics of  *)
(* a player, for a chart long enough for the combo to pass 100.  The state *)
(* keeps the fields of the player that update_grade reads or writes; every *)
(* grade goes to the next object of the chart.                             *)

\* The longest run of exact hits a play begins with, and the grades given
\* after the run.
MaxCombo == 101
MaxGrades == 2

GradeChart ==
    [objs |-> [i \in 1..(MaxCombo + MaxGrades) |-> Visible(I(i), 0, None)],
     shortens |-> <<>>, initbpm |-> I(120), rank |-> 2,
     nmeasures |-> MaxCombo + MaxGrades + 1]

GradeFields ==
    {"pc", "now", "nnotes", "gradecounts", "lastgrade", "score", "lastcombo",
     "bestcombo", "gauge", "survival", "grades"}

\* The number of grades recorded so far: the place of the next object.
graded(P) ==
    P.gradecounts["MISS"] + P.gradecounts["BAD"] + P.gradecounts["GOOD"]
    + P.gradecounts["GREAT"] + P.gradecounts["COOL"]

\* Distances (ms) of a key press from its note: COOL, GREAT, GOOD and BAD.
GradeDistances == {I(0), I(-20), I(60), I(100)}

\* Damages of a bomb: the least and the greatest ratio of channel Dx, and ZZ.
BombDamages == {GaugeDamage(Q(1, 200)), GaugeDamage(I(1)), InstantDeath}

GradeInit ==
    /\ player = [f \in GradeFields |-> new_player(GradeChart, 0)[f]] @@ [steps |-> 0]
    /\ tl = Idle /\ pp = Idle /\ sz = Idle /\ kc = Idle /\ rp = Idle /\ ptr = Idle
    /\ loop = Idle

\* The opening run: the next note is hit exactly, as every note before it.
HitRun ==
    /\ player.pc = "playing" /\ player.steps = 0
    /\ player.gradecounts["COOL"] = graded(player)
    /\ graded(player) < MaxCombo
    /\ player' = update_grade_from_distance(player, graded(player), I(0))
    /\ UNCHANGED <<tl, pp, sz, kc, rp, ptr, loop>>

\* A key press that grades the next note (process_press).
GradeByDistance ==
    /\ player.pc = "playing" /\ player.steps < MaxGrades
    /\ \E dist \in GradeDistances :
          player' = [update_grade_from_distance(player, graded(player), dist)
                       EXCEPT !.steps = @ + 1]
    /\ UNCHANGED <<tl, pp, sz, kc, rp, ptr, loop>>

\* The sweep or an early release (update_grade_to_miss).
GradeToMiss ==
    /\ player.pc = "playing" /\ player.steps < MaxGrades
    /\ player' = [update_grade_to_miss(player, graded(player)) EXCEPT !.steps = @ + 1]
    /\ UNCHANGED <<tl, pp, sz, kc, rp, ptr, loop>>

\* A bomb under a pressed key (update_grade_from_damage); an instant death
\* ends the play.
GradeFromDamage ==
    /\ player.pc = "playing" /\ player.steps < MaxGrades
    /\ \E damage \in BombDamages :
          player' = [update_grade_from_damage(player, graded(player), damage)
                       EXCEPT !.steps = @ + 1,
                              !.pc = IF keepgoing(damage) THEN @ ELSE "ended"]
    /\ UNCHANGED <<tl, pp, sz, kc, rp, ptr, loop>>

GradeNext == HitRun \/ GradeByDistance \/ GradeToMiss \/ GradeFromDamage

SpecGrade == GradeInit /\ [][GradeNext]_vars

\* What one recorded grade does to the combo and to the best combo.
combo_step ==
    \E g \in {player'.lastgrade[1][1]} :
        /\ g \in {"BAD", "MISS"} => player'.lastcombo = 0
        /\ g = "GOOD" => player'.lastcombo = player.lastcombo
        /\ g \in {"GREAT", "COOL"} => player'.lastcombo = player.lastcombo + 1
        /\ player'.bestcombo >= player.bestcombo
        /\ player'.bestcombo \in {player.bestcombo, player'.lastcombo}

\* C28: a recorded BAD or MISS sets the combo to 0, a GOOD leaves it, a GREAT
\* or COOL adds 1; the best combo is the greatest value the combo has had: it
\* is never below the combo and never decreases.
C28_ComboAndBest ==
    /\ [](player.bestcombo >= player.lastcombo)
    /\ [][combo_step]_vars

\* A play whose combo of more than 100 was broken: the best combo stays.
C28_Witness ==
    /\ player.steps > 0
    /\ player.lastcombo = 0
    /\ player.bestcombo > 100

\* What one recorded grade does to the gauge.
gauge_step ==
    \E g \in {player'.lastgrade[1][1]} :
        /\ g \in {"GREAT", "COOL"} =>
              \E bonus \in 0..2 :
                  player'.gauge = Min(player.gauge + (IF g = "GREAT" THEN 2 ELSE 3) + bonus,
                                      MAXGAUGE)
        /\ g = "GOOD" => player'.gauge = player.gauge
        /\ g \in {"BAD", "MISS"} => player'.gauge <= player.gauge

\* C29: the gauge is never above MAXGAUGE; it starts at half of MAXGAUGE; a
\* GREAT raises it by 2 and a COOL by 3, plus a bonus of at most 2, up to
\* MAXGAUGE; a BAD, a MISS and a bomb lower it, and a GOOD leaves it.
C29_GaugeCapped ==
    /\ [](/\ player.gauge <= MAXGAUGE
          /\ graded(player) = 0 => 2 * player.gauge = MAXGAUGE)
    /\ [][gauge_step]_vars

\* A COOL on a combo of 100 or more that met the ceiling of the gauge.
C29_Witness ==
    /\ player.steps > 0
    /\ player.lastgrade = Some(<<"COOL", 0>>)
    /\ player.lastcombo > 100
    /\ player.gauge = MAXGAUGE

----------------------------------------------------------------------------
(* Bombs.                                                                  *)

\* What a tick does at the bombs: an instant death under a pressed key, and
\* the bombs of lanes whose key is not pressed.
bomb_step ==
    player'.pc \in {"playing", "ended"} =>
        /\ \A k \in 1..Len(player'.log) :
              \E e \in {player'.log[k]} :
                  (e.op = "bomb" /\ player.bms.objs[e.pos + 1].unit = "InstantDeath")
                  => /\ key_pressed(player', player.bms.objs[e.pos + 1].lane[1])
                     /\ player'.grades[e.pos + 1] = player.grades[e.pos + 1] + 1
                     /\ player'.lastgrade[1][1] = "MISS"
                     /\ player'.gauge <= 0
                     /\ player'.pcur.pos = Len(player.bms.objs)
                     /\ player'.pc = "ended"
                     /\ k = Len(player'.log)
        /\ \A i \in 1..Len(player.bms.objs) :
              (/\ player.bms.objs[i].kind = "Bomb"
               /\ ~key_pressed(player', player.bms.objs[i].lane[1]))
              => /\ player'.grades[i] = player.grades[i]
                 /\ \A k \in 1..Len(player'.log) :
                       ~(player'.log[k].op = "bomb" /\ player'.log[k].pos = i - 1)

\* C30: when the tick passes an instant-death Bomb of a lane whose key is
\* pressed, a MISS is recorded for it, the gauge is at most 0, pcur is at the
\* end of the chart and the tick returns false at once, so that nothing is
\* graded afterwards; a Bomb of a lane whose key is not pressed gets no grade.
C30_InstantDeathEndsPlay == [][bomb_step]_vars

\* A play ended by the instant-death bomb, the key of its lane held.
C30_Witness ==
    /\ player.pc = "ended"
    /\ player.log # <<>>
    /\ player.log[Len(player.log)].op = "bomb"
    /\ player.bms.objs[player.log[Len(player.log)].pos + 1].unit = "InstantDeath"
    /\ player.gauge <= 0
    /\ player.pcur.pos = Len(player.bms.objs)


----------------------------------------------------------------------------
(* The end of play: what makes tick answer false.                          *)

\* What a tick detected, read from the log it left and the position it
\* computed.
quit_polled(P) == \E k \in 1..Len(P.log) : P.log[k].op = "quit"
death_fired(P) ==
    \E k \in 1..Len(P.log) :
        P.log[k].op = "bomb" /\ P.bms.objs[P.log[k].pos + 1].unit = "InstantDeath"
passed_end(P) == RLt(I(P.bms.nmeasures + 1), P.bottom)
rewound(P) == RLt(P.bottom, P.originoffset)

\* Nothing follows the entry of a quit event or of an instant-death bomb.
ends_at_detection(P) ==
    \A k \in 1..Len(P.log) :
        (\/ P.log[k].op = "quit"
         \/ P.log[k].op = "bomb" /\ P.bms.objs[P.log[k].pos + 1].unit = "InstantDeath")
        => k = Len(P.log)

\* C31 as claimed: a tick that finds the position past the last measure or
\* before the origin, fires an instant-death bomb or polls a quit event
\* answers false.
tick_ends_when_detected ==
    (player.pc = "playing" /\ player'.pc \in {"playing", "ended"} /\ player' # player)
    => ((quit_polled(player') \/ death_fired(player')
         \/ passed_end(player') \/ rewound(player'))
        => player'.pc = "ended")

tick_ends_when_silent ==
    (player.pc = "playing" /\ player'.pc \in {"playing", "ended"} /\ player' # player)
    => LET P == player'
           final == P.log[Len(P.log)]
           silent == /\ P.log # <<>> /\ final.op = "finish" /\ ~final.sounding
       IN  /\ ends_at_detection(P)
           /\ (P.log # <<>> /\ final.op = "finish") <=>
                (passed_end(P) /\ ~quit_polled(P) /\ ~death_fired(P))
           /\ P.pc = "ended" <=>
                \/ quit_polled(P) \/ death_fired(P)
                \/ silent
                \/ ~passed_end(P) /\ rewound(P)

----------------------------------------------------------------------------
(* Pointer on its own: one pointer over a list of objects sorted by time,  *)
(* driven as the engine drives it: reset() and then a loop of next_until,  *)
(* next_to or next_to_end that runs until the call answers false or is     *)
(* left early, seek_until, and find_closest_of_type.  `from` and `visited` *)
(* are histories of the loop: the position it started at and the positions *)
(* its calls answered true for; `call` is the last call and what it met.   *)

MaxPtrObjs == 3

PtrTimes == {I(1), I(2), I(3)}
PtrLimits == {I(0), I(2), Q(5, 2), I(4)}
PtrBases == {I(1), Q(3, 2), I(2), Q(5, 2)}

\* The lists of at most MaxPtrObjs notes of lane 0 and BGMs, sorted by time.
PtrCharts ==
    LET Objs == {Visible(t, 0, None) : t \in PtrTimes} \cup {BGM(t, 1) : t \in PtrTimes}
    IN  {objs \in UNION {[1..n -> Objs] : n \in 0..MaxPtrObjs} :
            \A i \in 1..(Len(objs) - 1) : RLe(objs[i].time, objs[i + 1].time)}

NoCall == [op |-> "new", limit |-> I(0), to |-> 0, before |-> Pointer(0), found |-> None]

PtrInit ==
    /\ \E objs \in PtrCharts :
         ptr = [pc |-> "out", objs |-> objs, p |-> Pointer(0),
                from |-> 0, visited |-> <<>>, left |-> "none", call |-> NoCall]
    /\ tl = Idle /\ pp = Idle /\ sz = Idle /\ player = Idle /\ kc = Idle /\ rp = Idle
    /\ loop = Idle

\* The state after one call of a loop: the call answered `r.more` and left
\* the pointer r.ptr.
looped(r, op, limit, to) ==
    [ptr EXCEPT !.p = r.ptr,
                !.pc = IF r.more THEN "in" ELSE "out",
                !.from = IF ptr.pc = "out" THEN ptr.p.pos ELSE @,
                !.visited = (IF ptr.pc = "out" THEN <<>> ELSE @)
                            \o (IF r.more THEN <<r.ptr.pos>> ELSE <<>>),
                !.left = IF r.more THEN "none" ELSE "false",
                !.call = [op |-> op, limit |-> limit, to |-> to,
                          before |-> ptr.p, found |-> None]]

\* Whether a loop of `op` may make its next call: it is the loop in progress,
\* or no loop is and the pointer was reset.
may_call(op) ==
    \/ ptr.pc = "in" /\ ptr.call.op = op
    \/ ptr.pc = "out" /\ ptr.p.next = None

\* One call of `while p.next_until(limit)`.
NextUntil ==
    /\ may_call("next_until")
    /\ \E limit \in (IF ptr.pc = "in" THEN {ptr.call.limit} ELSE PtrLimits) :
         ptr' = looped(next_until(ptr.objs, ptr.p, limit), "next_until", limit, 0)
    /\ UNCHANGED <<tl, pp, sz, player, kc, rp, loop>>

\* One call of `while p.next_to(&limit)`.
NextTo ==
    /\ may_call("next_to")
    /\ \E to \in (IF ptr.pc = "in" THEN {ptr.call.to} ELSE ptr.p.pos..Len(ptr.objs)) :
         ptr' = looped(next_to(ptr.p, Pointer(to)), "next_to", I(0), to)
    /\ UNCHANGED <<tl, pp, sz, player, kc, rp, loop>>

\* One call of `while p.next_to_end()`.
NextToEnd ==
    /\ may_call("next_to_end")
    /\ ptr' = looped(next_to_end(ptr.objs, ptr.p), "next_to_end", I(0), 0)
    /\ UNCHANGED <<tl, pp, sz, player, kc, rp, loop>>

\* A `break` inside the loop.
Break ==
    /\ ptr.pc = "in"
    /\ ptr' = [ptr EXCEPT !.pc = "out", !.left = "break"]
    /\ UNCHANGED <<tl, pp, sz, player, kc, rp, loop>>

\* p.reset() between two loops.
PtrReset ==
    /\ ptr.pc = "out" /\ ptr.call.op # "reset"
    /\ ptr' = [ptr EXCEPT !.p = reset(@),
                          !.call = [NoCall EXCEPT !.op = "reset", !.before = ptr.p]]
    /\ UNCHANGED <<tl, pp, sz, player, kc, rp, loop>>

\* p.seek_until(limit) between two loops.
SeekUntil ==
    /\ ptr.pc = "out"
    /\ \E limit \in PtrLimits :
         ptr' = [ptr EXCEPT !.p = seek_until(ptr.objs, @, limit),
                            !.visited = <<>>, !.left = "none",
                            !.call = [NoCall EXCEPT !.op = "seek_until", !.limit = limit,
                                                    !.before = ptr.p]]
    /\ UNCHANGED <<tl, pp, sz, player, kc, rp, loop>>

\* p.find_closest_of_type(base, cond) for the notes of lane 0.
FindClosest ==
    /\ ptr.pc = "out"
    /\ \E base \in PtrBases :
         ptr' = [ptr EXCEPT !.call =
                    [op |-> "find_closest_of_type", limit |-> base, to |-> 0,
                     before |-> ptr.p,
                     found |-> find_closest_of_type(ptr.objs, ptr.p.pos, base, 0,
                                                    {"Visible"})]]
    /\ UNCHANGED <<tl, pp, sz, player, kc, rp, loop>>

PtrNext == NextUntil \/ NextTo \/ NextToEnd \/ Break \/ PtrReset \/ SeekUntil \/ FindClosest

SpecPtr == PtrInit /\ [][PtrNext]_vars


LoopOps == {"next_until", "next_to", "next_to_end"}

\* Whether the object at position i (0-based) lies before the limit of the
\* loop whose last call is c.
before_limit(objs, c, i) ==
    CASE c.op = "next_until" -> i < Len(objs) /\ RLt(objs[i + 1].time, c.limit)
      [] c.op = "next_to" -> i < c.to
      [] c.op = "next_to_end" -> i < Len(objs)

\* What holds of a loop while it runs and after it was left.
loop_visits ==
    LET n == Len(ptr.visited)
    IN  /\ ptr.visited = [k \in 1..n |-> ptr.from + k - 1]
        /\ ptr.p.pos <= Len(ptr.objs)
        /\ ptr.call.op \in LoopOps =>
             \A k \in 1..n : before_limit(ptr.objs, ptr.call, ptr.visited[k])
        /\ ptr.pc = "in" => n >= 1 /\ ptr.p.pos = ptr.visited[n]
        /\ ptr.left = "break" => ptr.p.pos = ptr.visited[n]
        /\ ptr.left = "false" => ptr.p.pos = ptr.from + n
        /\ (ptr.left = "false" /\ ptr.call.op \in LoopOps) =>
             ~before_limit(ptr.objs, ptr.call, ptr.p.pos)

\* What holds of one call of a loop.
loop_call ==
    (ptr'.call.op \in LoopOps /\ ptr'.left # "break" /\ ptr' # ptr) =>
        /\ ptr'.p.pos \in {ptr.p.pos, ptr.p.pos + 1}
        /\ ptr'.pc = "in" <=> before_limit(ptr.objs, ptr'.call, ptr'.p.pos)
        /\ (ptr.left = "break" /\ ptr'.pc = "in") =>
             ptr'.visited = <<ptr.visited[Len(ptr.visited)]>>

\* C32: a loop of next_until, next_to or next_to_end visits the objects from
\* the pointer's position that lie before the limit, in order and once each,
\* every call moving pos by at most one step and answering whether such an
\* object exists; left early and reset, the pointer stays on the object last
\* visited and the next loop starts with it; run to false, it rests on the
\* first object not before the limit.
C32_LoopVisitsEachOnce == [](loop_visits) /\ [][loop_call]_vars

\* A loop visited two objects and was left early, the step to the third
\* cached; reset() dropped the cache and left the pointer on the second.
C32_Witness ==
    /\ ptr.call.op = "reset" /\ ptr.left = "break"
    /\ ptr.visited = <<0, 1>> /\ Len(ptr.objs) = 3
    /\ ptr.call.before = [pos |-> 1, next |-> Some(2)]
    /\ ptr.p = Pointer(1)


\* C33: seek_until(limit) never decreases pos and leaves it on the first
\* object at or after the starting position whose time is >= limit, or past
\* the end; the same call again changes nothing, and a call with a smaller
\* limit does not move pos.
C33_SeekUntil ==
    ptr.call.op = "seek_until" =>
        LET from == ptr.call.before.pos
            limit == ptr.call.limit
        IN  /\ from <= ptr.p.pos /\ ptr.p.pos <= Len(ptr.objs)
            /\ \A i \in from..(ptr.p.pos - 1) : RLt(ptr.objs[i + 1].time, limit)
            /\ ptr.p.pos < Len(ptr.objs) => RLe(limit, ptr.objs[ptr.p.pos + 1].time)
            /\ seek_until(ptr.objs, ptr.p, limit) = ptr.p
            /\ \A smaller \in PtrLimits :
                   RLt(smaller, limit) => seek_until(ptr.objs, ptr.p, smaller) = ptr.p

\* A seek from the first object with limit 2 passed one object and stopped on
\* the first of two objects at time 2, dropping a cached step.
C33_Witness ==
    /\ ptr.call.op = "seek_until" /\ ptr.call.limit = I(2)
    /\ ptr.call.before = [pos |-> 0, next |-> Some(1)]
    /\ ptr.p = Pointer(1)
    /\ Len(ptr.objs) = 3 /\ ptr.objs[2].time = I(2) /\ ptr.objs[3].time = I(2)


\* The positions (0-based) of the notes of lane 0, and the distance of the
\* object at position i from `base`.
matching(objs) == {i \in 0..(Len(objs) - 1) : of_type(objs[i + 1], 0, {"Visible"})}
distance(objs, i, base) == RAbs(RSub(objs[i + 1].time, base))

\* C34: find_closest_of_type(base, cond) leaves the pointer as it is and
\* answers the nearest match before pos or the nearest match at or after pos,
\* whichever is closer in time to base; the one that exists when only one
\* does; none when neither does.
C34_FindClosest ==
    ptr.call.op = "find_closest_of_type" =>
        LET pos == ptr.p.pos
            base == ptr.call.limit
            before == {i \in matching(ptr.objs) : i < pos}
            after == {i \in matching(ptr.objs) : i >= pos}
            previous == CHOOSE i \in before : \A j \in before : j <= i
            next == CHOOSE i \in after : \A j \in after : i <= j
            found == ptr.call.found
        IN  /\ ptr.p = ptr.call.before
            /\ (before = {} /\ after = {}) => found = None
            /\ (before = {} /\ after # {}) => found = Some(next)
            /\ (before # {} /\ after = {}) => found = Some(previous)
            /\ (before # {} /\ after # {}) =>
                 /\ found \in {Some(previous), Some(next)}
                 /\ RLe(distance(ptr.objs, found[1], base),
                        distance(ptr.objs, previous, base))
                 /\ RLe(distance(ptr.objs, found[1], base),
                        distance(ptr.objs, next, base))

\* A search from the third of three notes at times 1, 2, 3 with base 2
\* answered the note behind the pointer, at distance 0.
C34_Witness ==
    /\ ptr.call.op = "find_closest_of_type" /\ ptr.call.limit = I(2)
    /\ ptr.p.pos = 2 /\ Len(ptr.objs) = 3
    /\ \A i \in 1..3 : ptr.objs[i] = Visible(I(i), 0, None)
    /\ ptr.call.found = Some(1)


----------------------------------------------------------------------------
(* Lines that fail to parse.                                               *)

\* C35: a line that `lex!` does not match leaves the block stack, the
\* buffered lines and the RNG as they were, and the parser goes on reading.
line_skipped ==
    (pp.pc = "reading" /\ ~pp'.line.lexed) =>
        /\ pp'.blk = pp.blk
        /\ pp'.bmsline = pp.bmsline
        /\ pp'.rng = pp.rng
        /\ pp'.opened = pp.opened /\ pp'.clause = pp.clause
        /\ pp'.pc = "reading"

----------------------------------------------------------------------------
(* The assertion of break_continuity.                                      *)

\* C36: the assertion `at >= self.startoffset` of break_continuity holds on
\* every call: no tick asks for a rebase at a position before the origin.
C36_RebaseNotBeforeOrigin == player.pc # "panicked"


----------------------------------------------------------------------------
(* The cursors.                                                            *)

\* The positions the last tick touched an object at.
touched(P) ==
    {P.log[k].pos : k \in {j \in 1..Len(P.log) : P.log[j].op \in {"effect", "sweep", "bomb"}}}
    \cup {P.log[k].pos[1] :
             k \in {j \in 1..Len(P.log) : P.log[j].op = "press" /\ P.log[j].pos # None}}

cursors_in_order(P) ==
    /\ P.pcheck.pos <= P.pcur.pos /\ P.pcur.pos <= Len(P.bms.objs)
    /\ \A pos \in touched(P) : pos < Len(P.bms.objs)

cursors_advance ==
    (player.pc = "playing" /\ player'.pc \in {"playing", "ended"}) =>
        /\ player.pcur.pos <= player'.pcur.pos
        /\ player.pcheck.pos <= player'.pcheck.pos

\* C37: after every tick pcheck.pos <= pcur.pos <= the number of objects and
\* every object touched lies inside the timeline; from one tick to the next
\* neither cursor moves back, also when the position does.
C37_CursorsOrdered ==
    [](player.pc \in {"playing", "ended"} => cursors_in_order(player))
    /\ [][cursors_advance]_vars

\* The position has fallen back below a BPM change that pcur has passed.
C37_Witness ==
    /\ player.pc = "playing" /\ player.bms = ChartRewind
    /\ player.pcur.pos = 1
    /\ RLt(player.bottom, player.bms.objs[1].time)


----------------------------------------------------------------------------
(* The play loop under a clock that moves on: `while player.tick()` calls   *)
(* tick again as long as it answers true, each time with a later reading   *)
(* of the clock; no event is polled.  The loop is followed until the       *)
(* position is past the last measure.                                      *)

MaxClock == 20000
ClockSteps == {50, 450}

PlayOnInit ==
    /\ \E c \in PlayCases :
         player = [clock |-> {}, keymap |-> c.keymap] @@ new_player(c.bms, 0)
    /\ loop = [pc |-> "running", now |-> 0]
    /\ tl = Idle /\ pp = Idle /\ sz = Idle /\ kc = Idle /\ rp = Idle /\ ptr = Idle

\* One more turn of the loop: a later reading of the clock, and whether the
\* loop goes on after it.
LoopTurn ==
    /\ loop.pc = "running"
    /\ \E d \in ClockSteps, pc \in {"running", "stopped"} :
         loop' = [pc |-> pc, now |-> loop.now + d]

\* The turn's call of Player::tick.
TickOn ==
    /\ LoopTurn
    /\ \E P \in {tick_run(player, loop'.now, <<>>)} :
         \E sounding \in BOOLEAN : player' = tick_finish(P, sounding)
    /\ loop'.pc = "running" <=>
          (player'.pc = "playing" /\ ~passed_end(player') /\ loop'.now < MaxClock)
    /\ UNCHANGED <<tl, pp, sz, kc, rp, ptr>>

\* The loop takes its next turn as long as it is running.
SpecPlayOn == PlayOnInit /\ [][TickOn]_vars /\ WF_loop(LoopTurn)

\* Whether a negative BPM comes into force in the chart.
rewinds(bms) ==
    \/ RLt(bms.initbpm, I(0))
    \/ \E i \in 1..Len(bms.objs) : bms.objs[i].kind = "SetBPM" /\ RLt(bms.objs[i].val, I(0))

\* The position is past the last measure; a wrapped clock difference puts it
\* there.
ran_out(P) == P.pc = "wrapped" \/ (P.pc \in {"playing", "ended"} /\ passed_end(P))

\* The outcomes C38 names, for the chart being played.
stop_pending == player.stoptime # None
stop_over == player.stoptime = None
runs_out == rewinds(player.bms) \/ ran_out(player)
rewinds_out == ~rewinds(player.bms) \/ (player.pc = "ended" /\ rewound(player))

\* C38: under an advancing clock and with no quit event every pending stop
\* expires; with positive BPMs the position comes to exceed nmeasures + 1,
\* and with a negative BPM in force it falls below the origin and the loop
\* ends.
C38_PlayRunsOut == (stop_pending ~> stop_over) /\ <>runs_out /\ <>rewinds_out

-----------------------------------------------------------------------------
\* The length of the chart (bms.nmeasures) against the buffered lines.

\* The measure numbers of the buffered data lines.
measures_of(lines) == {lines[i].measure : i \in 1..Len(lines)}

\* One plus the highest measure number of the lines, 1 when there is none.
past_highest(lines) ==
    IF lines = <<>> THEN 1
    ELSE 1 + CHOOSE m \in measures_of(lines) : \A n \in measures_of(lines) : n <= m

\* The objects the replay of the data lines pushed, after those pushed while
\* the lines were read.
replayed_objs == SubSeq(rp.objs, Len(rp.read) + 1, Len(rp.objs))

\* C39: after parsing, nmeasures is one plus the highest measure number of the
\* data lines (1 when there is none), whatever their order in the file, and
\* every object of the data lines lies before nmeasures, except an LNDone at
\* exactly nmeasures.
C39_LengthPastHighestMeasure ==
    rp.pc = "parsed"
    => /\ rp.nmeasures = past_highest(rp.bmsline)
       /\ \A i \in 1..Len(replayed_objs) :
             \/ RLt(replayed_objs[i].time, I(rp.nmeasures))
             \/ /\ replayed_objs[i].kind = "LNDone"
                /\ replayed_objs[i].time = I(rp.nmeasures)

-----------------------------------------------------------------------------
\* sanitize_bms on its own output.

\* Two BPM changes at one time, for the pass over the effects.
SanEffects == <<SetBPM(I(1), I(120)), SetBPM(I(1), I(60))>>

\* C40: sanitize_bms is idempotent: run on its own output it changes no
\* object (same times, same data, same order); so it is for the charts of at
\* most one note with two BPM changes of one time added, where the pass over
\* the effects deletes the second.
C40_SanitizeIdempotent ==
    sz.pc = "sanitized"
    => /\ sanitize_bms(sz.objs) = sz.objs
       /\ Len(sz.raw) <= 1
          => LET once == sanitize_bms(sz.raw \o SanEffects)
             IN  /\ sanitize_bms(once) = once
                 /\ once # sort_by_time(sz.raw \o SanEffects)

\* A sanitized chart whose input was out of order, lost a long-note start
\* that nothing closed and a duplicate, and which a second run leaves alone.
C40_Witness ==
    /\ sz.pc = "sanitized"
    /\ sz.raw = <<LNStart(I(2), 0, Some(1)), Visible(I(1), 1, Some(1)),
                  Visible(I(1), 1, Some(1))>>
    /\ sz.objs = <<Visible(I(1), 1, Some(1)), BGM(I(1), 1), BGM(I(2), 1)>>
    /\ sanitize_bms(sz.objs) = sz.objs

=============================================================================
